---------------------------- MODULE Spec2Model ----------------------------
(***************************************************************************)
(* Targeted sentiment attribution: the lexicon-based polarity scorer       *)
(* (src/src/sentiment.py) and the attribution cascade                      *)
(* (src/src/sentiment_report.py).                                          *)
(*                                                                         *)
(* Numbers.  The source computes with floats; the model computes with      *)
(* exact decimals held as integers:                                        *)
(*   - lexicon strengths and multipliers: tenths        (1.5  -> 15)       *)
(*   - a token's contribution, score_sum: thousandths   (1.5  -> 1500)     *)
(*   - SentimentResult.confidence:        thousandths   (0.85 -> 850)      *)
(*   - SentimentResult.score:             1e-4 units    (1.5  -> 15000)    *)
(*   - the cascade's final confidence:    1e-4 units    (0.92 -> 9200)     *)
(* A float differs from the exact decimal by a rounding error far smaller   *)
(* than any gap between two distinct values of the model, so it decides a   *)
(* comparison or a rounding only where the exact values coincide:           *)
(*   - round(x, n) of an x lying exactly half way between two neighbours    *)
(*     goes to either of them (parameter tie);                              *)
(*   - avg compared with a threshold it equals exactly: the float avg lies  *)
(*     below, on or above the threshold (parameter err, the sign of the     *)
(*     rounding error of avg).  "pouco bom bom nao bom" has the exact       *)
(*     average 0.6 / 3 = 0.2 and the float average 0.20000000000000004.     *)
(***************************************************************************)
EXTENDS Integers, Sequences, FiniteSets, TLC

VARIABLES
    analyzer,   \* the TargetedLexiconAnalyzer: NoAnalyzer or [lex |-> Lexicon]
    call,       \* the call in progress, with its arguments, locals and result
    memo,       \* an earlier call kept by the caller, to compare a later one with
    report,     \* generate_sentiment_report in progress: its position and locals
    db,         \* the SQLite database: its tables and their rows
    fetch,      \* HttpClient.fetch in progress: its position and locals
    scraper     \* the Scraper: its configuration and the method in progress

vars == <<analyzer, call, memo, report, db, fetch, scraper>>

---------------------------------------------------------------------------
(* Small helpers *)

Min(a, b) == IF a < b THEN a ELSE b
Max(a, b) == IF a > b THEN a ELSE b
Abs(a) == IF a < 0 THEN -a ELSE a

\* Python's None
None == [isNone |-> TRUE]

NoAnalyzer == [constructed |-> FALSE]
NoCall == [op |-> "none"]
NoMemo == [call |-> NoCall]
NoReport == [pc |-> "none"]
NoRows == [artigos_pessoas |-> {}, comentarios |-> {}]
NoFetch == [pc |-> "none"]
NoScraper == [constructed |-> FALSE]

Labels == {"positivo", "negativo", "neutro"}
Stances == {"concorda", "discorda", "indefinido"}
Ties == {"down", "up"}
FloatErrs == {-1, 0, 1}

\* round(x, 3) of x given in 1e-4 units; the result is in 1e-4 units too.
Round3(x4, tie) ==
    LET q == x4 \div 10
        r == x4 % 10
    IN  IF r < 5 THEN q * 10
        ELSE IF r > 5 THEN (q + 1) * 10
        ELSE IF tie = "up" THEN (q + 1) * 10 ELSE q * 10

---------------------------------------------------------------------------
(* The attribution cascade: _derive_final_label *)

\* Bounds of the inputs drawn for _derive_final_label
MaxHits == 2
Confidences == {200, 300, 501, 733, 800, 1000}

SentimentResults ==
    [label : Labels, score : {0}, confidence : Confidences,
     hits : 0 .. MaxHits, mentioned : {FALSE}]

\* if mentioned: return comment_res.label, comment_res.confidence, "comentario_direto"
Direct(comment_res) ==
    [label |-> comment_res.label,
     confidence |-> comment_res.confidence * 10,
     origin |-> "comentario_direto"]

UndeterminedNoFloor(comment_res) ==
    [label |-> "neutro",
     confidence |-> Min(5000, comment_res.confidence * 5),
     origin |-> "indefinido"]

\* return "neutro", min(0.5, max(0.25, comment_res.confidence * 0.5)), "indefinido"
Undetermined(comment_res) ==
    [label |-> "neutro",
     confidence |-> Min(5000, Max(2500, comment_res.confidence * 5)),
     origin |-> "indefinido"]

ArticleDeterminateNoHits(article_res) ==
    /\ article_res # None
    /\ article_res.label \in {"positivo", "negativo"}

\* article_res and article_res.hits > 0 and article_res.label in ("positivo", "negativo")
ArticleDeterminate(article_res) ==
    /\ article_res # None
    /\ article_res.hits > 0
    /\ article_res.label \in {"positivo", "negativo"}

CommentDeterminateNoHits(comment_res) ==
    comment_res.label \in {"positivo", "negativo"}

\* comment_res.hits > 0 and comment_res.label in ("positivo", "negativo")
CommentDeterminate(comment_res) ==
    /\ comment_res.hits > 0
    /\ comment_res.label \in {"positivo", "negativo"}

StanceAlignNoFlip(article_res, stance, tie) ==
    [label |-> article_res.label,
     confidence |-> Round3(Min(10000, 6000 + 4 * article_res.confidence), tie),
     origin |-> "alinhamento_noticia_stance"]

\* 1) explicit stance: the article's label, flipped on "discorda"
StanceAlign(article_res, stance, tie) ==
    [label |-> IF stance = "concorda" THEN article_res.label
               ELSE IF article_res.label = "positivo" THEN "negativo" ELSE "positivo",
     confidence |-> Round3(Min(10000, 6000 + 4 * article_res.confidence), tie),
     origin |-> "alinhamento_noticia_stance"]

CommentAlignMeanOnly(comment_res, article_res, tie) ==
    [label |-> IF article_res.label = "positivo" THEN comment_res.label
               ELSE IF comment_res.label = "negativo" THEN "positivo" ELSE "negativo",
     confidence |->
        Round3(Min(10000, 5 * (article_res.confidence + comment_res.confidence)), tie),
     origin |-> "alinhamento_noticia"]

CommentAlignNoFlip(comment_res, article_res, tie) ==
    [label |-> comment_res.label,
     confidence |->
        Round3(Min(10000, 5000 + 5 * (article_res.confidence + comment_res.confidence)), tie),
     origin |-> "alinhamento_noticia"]

\* 2) no stance: align the comment's own sentiment with the article's
CommentAlign(comment_res, article_res, tie) ==
    [label |-> IF article_res.label = "positivo" THEN comment_res.label
               ELSE IF comment_res.label = "negativo" THEN "positivo" ELSE "negativo",
     confidence |->
        Round3(Min(10000, 5000 + 5 * (article_res.confidence + comment_res.confidence)), tie),
     origin |-> "alinhamento_noticia"]

derive_final_label_RefFirst(comment_res, article_res, mentioned, article_ref, stance, tie) ==
    IF ~article_ref THEN Undetermined(comment_res)
    ELSE IF mentioned THEN Direct(comment_res)
    ELSE IF ArticleDeterminate(article_res) /\ stance \in {"concorda", "discorda"}
        THEN StanceAlign(article_res, stance, tie)
    ELSE IF ArticleDeterminate(article_res) /\ CommentDeterminate(comment_res)
        THEN CommentAlign(comment_res, article_res, tie)
    ELSE Undetermined(comment_res)

_derive_final_label(comment_res, article_res, mentioned, article_ref, stance, tie) ==
    IF mentioned THEN Direct(comment_res)
    ELSE IF ~article_ref THEN Undetermined(comment_res)
    ELSE IF ArticleDeterminate(article_res) /\ stance \in {"concorda", "discorda"}
        THEN StanceAlign(article_res, stance, tie)
    ELSE IF ArticleDeterminate(article_res) /\ CommentDeterminate(comment_res)
        THEN CommentAlign(comment_res, article_res, tie)
    ELSE Undetermined(comment_res)

---------------------------------------------------------------------------
(* The lexicon *)

\* Lexicon.small_pt(): strengths and multipliers in tenths
small_pt ==
    [pos |-> [w \in {"bom", "boa", "apoiar", "apoio", "lideranca"} |-> 10]
             @@ [w \in {"otimo", "otima", "parabens", "competente", "honesto"} |-> 15]
             @@ [w \in {"vitoria", "acertou", "feliz"} |-> 12]
             @@ [w \in {"certo", "tranquilo"} |-> 8]
             @@ [w \in {"excelente"} |-> 20],
     neg |-> [w \in {"ruim", "errado"} |-> -12]
             @@ [w \in {"pessimo", "mentiroso", "incompetente", "lixo", "odeio"} |-> -20]
             @@ [w \in {"horrivel", "criminoso", "canalha"} |-> -22]
             @@ [w \in {"vergonha", "vergonhoso", "fracasso"} |-> -18]
             @@ [w \in {"corrupto", "vagabundo"} |-> -25]
             @@ [w \in {"crime", "enganou", "golpe"} |-> -15]
             @@ [w \in {"culpa"} |-> -10]
             @@ [w \in {"seboso"} |-> -16],
     negators |-> {"nao", "nunca", "jamais", "sem"},
     intensifiers |-> ("muito" :> 15) @@ ("mais" :> 12) @@ ("super" :> 16)
                      @@ ("extremamente" :> 18) @@ ("bastante" :> 13),
     diminishers |-> ("pouco" :> 6) @@ ("meio" :> 7) @@ ("quase" :> 7)]

\* A caller's own lexicon: "bom" is in both polarity mappings, "pouco" is both
\* an intensifier and a diminisher.
custom_lexicon ==
    [pos |-> ("bom" :> 10),
     neg |-> ("bom" :> -10) @@ ("ruim" :> -12),
     negators |-> {"nao"},
     intensifiers |-> ("muito" :> 15) @@ ("pouco" :> 12),
     diminishers |-> ("pouco" :> 6)]

\* The arguments a Lexicon is constructed from.  The dataclass has no
\* __post_init__: the constructor stores its arguments as they are.
Lexicon(pos, neg, negators, intensifiers, diminishers) ==
    [pos |-> pos, neg |-> neg, negators |-> negators,
     intensifiers |-> intensifiers, diminishers |-> diminishers]

LexiconArgs == {small_pt, custom_lexicon}

---------------------------------------------------------------------------
(* Text: normalize and tokenize *)

\* A text is None or a string, held as the sequence of its raw words (written
\* one after the other with blanks in between).  MaxLen bounds their number.
MaxLen == 5
RawWords == {"Não", "mas", "bom", "ruim", "muito", "pouco", "Silva"}

\* _WORD_RE.findall(_strip_accents(w).lower()) for each raw word of the model:
\* accents stripped, lower-cased; a punctuation mark holds no word.
WordTokens ==
    ("Não" :> <<"nao">>) @@ ("mas" :> <<"mas">>) @@ ("bom" :> <<"bom">>)
    @@ ("ruim" :> <<"ruim">>) @@ ("muito" :> <<"muito">>) @@ ("pouco" :> <<"pouco">>)
    @@ ("Silva" :> <<"silva">>) @@ ("Só" :> <<"so">>) @@ ("porém" :> <<"porem">>)
    @@ ("BOM!" :> <<"bom">>) @@ ("..." :> <<>>) @@ ("Ana" :> <<"ana">>)
    @@ ("concordo" :> <<"concordo">>) @@ ("matéria" :> <<"materia">>)

RECURSIVE SeqsUpTo(_, _)
SeqsUpTo(n, S) ==
    IF n = 0 THEN {<<>>}
    ELSE LET shorter == SeqsUpTo(n - 1, S)
         IN  shorter \cup {Append(q, w) : q \in {r \in shorter : Len(r) = n - 1}, w \in S}

Str(words) == [words |-> words]

Texts ==
    {Str(ws) : ws \in SeqsUpTo(MaxLen, RawWords)
                      \cup {<<"...">>, <<"Não", "Só", "BOM!">>, <<"Não", "porém", "bom">>}}
    \cup {None}

RECURSIVE FindAllWords(_)
FindAllWords(words) ==
    IF words = <<>> THEN <<>>
    ELSE WordTokens[Head(words)] \o FindAllWords(Tail(words))

\* _strip_accents gives "" for None and for "": no token
tokenize(text) == IF text = None THEN <<>> ELSE FindAllWords(text.words)

\* The letters of the normalized words, for the substring tests of analyze,
\* _has_article_reference and _detect_news_stance.
Letters ==
    ("nao" :> <<"n", "a", "o">>) @@ ("mas" :> <<"m", "a", "s">>)
    @@ ("bom" :> <<"b", "o", "m">>) @@ ("ruim" :> <<"r", "u", "i", "m">>)
    @@ ("muito" :> <<"m", "u", "i", "t", "o">>)
    @@ ("pouco" :> <<"p", "o", "u", "c", "o">>)
    @@ ("silva" :> <<"s", "i", "l", "v", "a">>) @@ ("so" :> <<"s", "o">>)
    @@ ("porem" :> <<"p", "o", "r", "e", "m">>) @@ ("ana" :> <<"a", "n", "a">>)
    @@ ("rui" :> <<"r", "u", "i">>)
    @@ ("discordo" :> <<"d", "i", "s", "c", "o", "r", "d", "o">>)
    @@ ("concordo" :> <<"c", "o", "n", "c", "o", "r", "d", "o">>)
    @@ ("mentira" :> <<"m", "e", "n", "t", "i", "r", "a">>)
    @@ ("e" :> <<"e">>)
    @@ ("isso" :> <<"i", "s", "s", "o">>)
    @@ ("fake" :> <<"f", "a", "k", "e">>)
    @@ ("news" :> <<"n", "e", "w", "s">>)
    @@ ("verdade" :> <<"v", "e", "r", "d", "a", "d", "e">>)
    @@ ("falso" :> <<"f", "a", "l", "s", "o">>)
    @@ ("confere" :> <<"c", "o", "n", "f", "e", "r", "e">>)
    @@ ("improcedente" :> <<"i", "m", "p", "r", "o", "c", "e", "d", "e", "n", "t", "e">>)
    @@ ("procede" :> <<"p", "r", "o", "c", "e", "d", "e">>)
    @@ ("errado" :> <<"e", "r", "r", "a", "d", "o">>)
    @@ ("nada" :> <<"n", "a", "d", "a">>)
    @@ ("a" :> <<"a">>)
    @@ ("ver" :> <<"v", "e", "r">>)
    @@ ("concorda" :> <<"c", "o", "n", "c", "o", "r", "d", "a">>)
    @@ ("procedente" :> <<"p", "r", "o", "c", "e", "d", "e", "n", "t", "e">>)
    @@ ("ta" :> <<"t", "a">>)
    @@ ("certo" :> <<"c", "e", "r", "t", "o">>)
    @@ ("esta" :> <<"e", "s", "t", "a">>)
    @@ ("correto" :> <<"c", "o", "r", "r", "e", "t", "o">>)
    @@ ("mesmo" :> <<"m", "e", "s", "m", "o">>)
    @@ ("bem" :> <<"b", "e", "m">>)
    @@ ("dito" :> <<"d", "i", "t", "o">>)
    @@ ("materia" :> <<"m", "a", "t", "e", "r", "i", "a">>)
    @@ ("noticia" :> <<"n", "o", "t", "i", "c", "i", "a">>)
    @@ ("reportagem" :> <<"r", "e", "p", "o", "r", "t", "a", "g", "e", "m">>)
    @@ ("essa" :> <<"e", "s", "s", "a">>)
    @@ ("no" :> <<"n", "o">>)
    @@ ("farol" :> <<"f", "a", "r", "o", "l">>)
    @@ ("do" :> <<"d", "o">>)
    @@ ("mentira!" :> <<"m", "e", "n", "t", "i", "r", "a", "!">>)
    @@ ("noticias" :> <<"n", "o", "t", "i", "c", "i", "a", "s">>)

\* " ".join(words), letter by letter
RECURSIVE Join(_)
Join(words) ==
    IF words = <<>> THEN <<>>
    ELSE IF Len(words) = 1 THEN Letters[words[1]]
    ELSE Letters[words[1]] \o <<" ">> \o Join(Tail(words))

\* Python's  a in b  on strings
IsSubstring(a, b) ==
    \E k \in 0 .. (Len(b) - Len(a)) : SubSeq(b, k + 1, k + Len(a)) = a

\* normalize(n) of each target name of the model, as its blank-separated words
\* (no word: the empty string)
NormalizedName ==
    ("Ana Silva" :> <<"ana", "silva">>) @@ ("Rui" :> <<"rui">>)
    @@ ("  " :> <<>>) @@ ("" :> <<>>)
    @@ ("silva" :> <<"silva">>) @@ ("rui" :> <<"rui">>)

normalize(name) == NormalizedName[name]

List(items) == [items |-> items]

TargetNames == {None, List(<<>>), List(<<"Ana Silva">>), List(<<"", "  ", "Rui">>)}

\* The texts analyzed against each of the target names: at most MaxNamedLen words.
MaxNamedLen == 3
NamedTexts ==
    {Str(ws) : ws \in SeqsUpTo(MaxNamedLen, RawWords \cup {"Ana"}) \cup {<<"...">>}}
    \cup {None}

\* The arguments drawn for analyze: every text without target names, the
\* shorter ones with each of the target names.
AnalyzeArgs == (Texts \X {None}) \cup (NamedTexts \X TargetNames)

---------------------------------------------------------------------------
(* _has_article_reference and _detect_news_stance *)

\* _strip_accents(w).lower() for each raw word of a comment: punctuation stays,
\* a run of blanks is no word (split() drops it).
NormalizedWord ==
    ("Não" :> <<"nao">>) @@ ("concordo" :> <<"concordo">>) @@ ("É" :> <<"e">>)
    @@ ("verdade" :> <<"verdade">>) @@ ("MENTIRA!" :> <<"mentira!">>)
    @@ ("improcedente" :> <<"improcedente">>) @@ ("matéria" :> <<"materia">>)
    @@ ("notícias" :> <<"noticias">>) @@ ("bom" :> <<"bom">>)
    @@ ("no" :> <<"no">>) @@ ("Farol" :> <<"farol">>) @@ ("  " :> <<>>)
    @@ ("Silva" :> <<"silva">>) @@ ("ruim" :> <<"ruim">>)

CommentWords ==
    {"Não", "concordo", "É", "verdade", "MENTIRA!", "improcedente", "matéria",
     "notícias", "bom", "no", "Farol", "  "}

\* The comment texts: at most MaxCommentLen blank-separated raw words, or None.
MaxCommentLen == 3
CommentTexts ==
    {Str(ws) : ws \in SeqsUpTo(MaxCommentLen, CommentWords)} \cup {None}

RECURSIVE NormalizedWords(_)
NormalizedWords(words) ==
    IF words = <<>> THEN <<>>
    ELSE NormalizedWord[Head(words)] \o NormalizedWords(Tail(words))

\* normalize(text) of a comment, letter by letter: "" for None
normalize_text(text) ==
    IF text = None THEN <<>> ELSE Join(NormalizedWords(text.words))

keys ==
    << <<"materia">>, <<"noticia">>, <<"reportagem">>,
       <<"esta", "materia">>, <<"essa", "materia">>,
       <<"esta", "noticia">>, <<"essa", "noticia">>,
       <<"esta", "reportagem">>, <<"essa", "reportagem">>,
       <<"a", "materia">>, <<"a", "noticia">>, <<"a", "reportagem">>,
       <<"no", "farol">>, <<"do", "farol">> >>

disagree ==
    << <<"discordo">>, <<"nao", "concordo">>, <<"mentira">>, <<"e", "mentira">>,
       <<"isso", "e", "mentira">>, <<"fake", "news">>, <<"fake">>,
       <<"nao", "e", "verdade">>, <<"falso">>, <<"nao", "confere">>,
       <<"improcedente">>, <<"nao", "procede">>, <<"errado">>,
       <<"nada", "a", "ver">> >>

agree ==
    << <<"concordo">>, <<"concorda">>, <<"verdade">>, <<"e", "verdade">>,
       <<"isso", "e", "verdade">>, <<"confere">>, <<"procedente">>,
       <<"ta", "certo">>, <<"esta", "certo">>, <<"correto">>,
       <<"isso", "mesmo">>, <<"bem", "dito">> >>

\* any(pat in t for pat in pats)
AnyIn(pats, t) == \E i \in 1 .. Len(pats) : IsSubstring(Join(pats[i]), t)

\* the words of t, for a variant that matches whole words only
WordsOf(text) == IF text = None THEN <<>> ELSE NormalizedWords(text.words)

has_article_reference_WholeWords(text) ==
    \E i \in 1 .. Len(keys) :
        \E k \in 0 .. (Len(WordsOf(text)) - Len(keys[i])) :
            SubSeq(WordsOf(text), k + 1, k + Len(keys[i])) = keys[i]

_has_article_reference(text) == AnyIn(keys, normalize_text(text))

detect_news_stance_AgreeFirst(text) ==
    LET t == normalize_text(text)
    IN  IF AnyIn(agree, t) THEN "concorda"
        ELSE IF AnyIn(disagree, t) THEN "discorda"
        ELSE "indefinido"

_detect_news_stance(text) ==
    LET t == normalize_text(text)
    IN  IF AnyIn(disagree, t) THEN "discorda"
        ELSE IF AnyIn(agree, t) THEN "concorda"
        ELSE "indefinido"

---------------------------------------------------------------------------
(* TargetedLexiconAnalyzer *)

window == 3

ClauseBreaks == {"mas", "porem", "porém", "so", "só"}

\* __init__: self.lex = lex or Lexicon.small_pt()
TargetedLexiconAnalyzer(lex) == [lex |-> IF lex = None THEN small_pt ELSE lex]

_term_polarity(lex, term) ==
    IF term \in DOMAIN lex.pos THEN lex.pos[term]
    ELSE IF term \in DOMAIN lex.neg THEN lex.neg[term]
    ELSE 0

\* norm_targets: the normalized non-empty names
norm_targets(target_names) ==
    IF target_names = None \/ target_names.items = <<>> THEN <<>>
    ELSE LET named == SelectSeq(target_names.items, LAMBDA n : n # "")
         IN  [k \in 1 .. Len(named) |-> normalize(named[k])]

MentionedWholeTokens(toks, target_names) ==
    LET nts == norm_targets(target_names)
    IN  \E k \in 1 .. Len(nts) :
            /\ nts[k] # <<>>
            /\ \E i \in 1 .. Len(toks) : toks[i] = nts[k][Len(nts[k])]

\* the loop over norm_targets: full name in the text, or the surname a token
Mentioned(toks, target_names) ==
    LET nts == norm_targets(target_names)
        flat == Join(toks)
    IN  \E k \in 1 .. Len(nts) :
            /\ nts[k] # <<>>
            /\ \/ IsSubstring(Join(nts[k]), flat)
               \/ \E i \in 1 .. Len(toks) : toks[i] = nts[k][Len(nts[k])]

\* prev = toks[i - 1] if i - 1 >= 0 else ""   (the model counts tokens from 1)
Prev(toks, i) == IF i - 1 >= 1 THEN toks[i - 1] ELSE ""

MultSkipping(lex, toks, i) ==
    LET near == Prev(toks, i)
        prev == IF near \in DOMAIN lex.intensifiers \cup DOMAIN lex.diminishers
                THEN near ELSE Prev(toks, i - 1)
    IN  (IF prev \in DOMAIN lex.intensifiers THEN lex.intensifiers[prev] ELSE 10)
        * (IF prev \in DOMAIN lex.diminishers THEN lex.diminishers[prev] ELSE 10)

\* mult, in hundredths: the intensifier and the diminisher multiplier of prev
Mult(lex, toks, i) ==
    LET prev == Prev(toks, i)
    IN  (IF prev \in DOMAIN lex.intensifiers THEN lex.intensifiers[prev] ELSE 10)
        * (IF prev \in DOMAIN lex.diminishers THEN lex.diminishers[prev] ELSE 10)

RECURSIVE NegationScanThroughBreaks(_, _, _, _)
NegationScanThroughBreaks(lex, toks, j, steps) ==
    IF j >= 1 /\ steps < window
    THEN IF toks[j] \in lex.negators THEN TRUE
         ELSE NegationScanThroughBreaks(lex, toks, j - 1, steps + 1)
    ELSE FALSE

\* the while loop: j runs back from i - 1 over at most window tokens
RECURSIVE NegationScan(_, _, _, _)
NegationScan(lex, toks, j, steps) ==
    IF j >= 1 /\ steps < window
    THEN IF toks[j] \in lex.negators THEN TRUE
         ELSE IF toks[j] \in ClauseBreaks THEN FALSE
         ELSE NegationScan(lex, toks, j - 1, steps + 1)
    ELSE FALSE

\* what one round of the for loop adds to score_sum, in thousandths
Contribution(lex, toks, i) ==
    LET pol == _term_polarity(lex, toks[i])
    IN  IF pol = 0 THEN 0
        ELSE (IF NegationScan(lex, toks, i - 1, 0) THEN pol * (-1) ELSE pol)
             * Mult(lex, toks, i)

RECURSIVE SumSeq(_)
SumSeq(q) == IF q = <<>> THEN 0 ELSE Head(q) + SumSeq(Tail(q))

\* n / d rounded to a whole number, d > 0
RoundDiv(n, d, tie) ==
    LET a == Abs(n)
        q == a \div d
        r2 == 2 * (a % d)
        m == IF r2 < d THEN q ELSE IF r2 > d THEN q + 1
             ELSE IF tie = "up" THEN q + 1 ELSE q
    IN  IF n < 0 THEN -m ELSE m

\* avg > x and avg < x for x in thousandths, avg being the float nearest to
\* score_sum / hits + err
AvgAbove(score_sum, hits, err, x) ==
    score_sum > x * hits \/ (score_sum = x * hits /\ err > 0)

AvgBelow(score_sum, hits, err, x) ==
    score_sum < x * hits \/ (score_sum = x * hits /\ err < 0)

\* where the rounding error of avg decides a comparison: on a threshold
OnThreshold(score_sum, hits) ==
    hits > 0 /\ (score_sum = 200 * hits \/ score_sum = -200 * hits)

LabelOfInclusive(score_sum, hits, err) ==
    IF ~AvgBelow(score_sum, hits, err, 200) THEN "positivo"
    ELSE IF ~AvgAbove(score_sum, hits, err, -200) THEN "negativo"
    ELSE "neutro"

\* avg = score_sum / hits against the thresholds 0.2 and -0.2
LabelOf(score_sum, hits, err) ==
    IF AvgAbove(score_sum, hits, err, 200) THEN "positivo"
    ELSE IF AvgBelow(score_sum, hits, err, -200) THEN "negativo"
    ELSE "neutro"

ConfidenceOfMentionPenalty(score_sum, hits, mentioned, tie) ==
    LET conf == Min(1000 * hits, 500 * hits + Min(500 * hits, Abs(score_sum)))
        bonus == IF mentioned THEN Max(0, conf - 150 * hits) ELSE conf
    IN  RoundDiv(bonus, hits, tie)

ConfidenceOfNoCap(score_sum, hits, mentioned, tie) ==
    LET conf == Min(1000 * hits, 500 * hits + Min(500 * hits, Abs(score_sum)))
        bonus == IF mentioned THEN conf + 150 * hits ELSE conf
    IN  RoundDiv(bonus, hits, tie)

\* conf, in thousandths: min(1.0, 0.5 + min(0.5, abs(avg))), plus 0.15 capped at
\* 1.0 when mentioned, rounded to 3 places
ConfidenceOf(score_sum, hits, mentioned, tie) ==
    LET conf == Min(1000 * hits, 500 * hits + Min(500 * hits, Abs(score_sum)))
        bonus == IF mentioned THEN Min(1000 * hits, conf + 150 * hits) ELSE conf
    IN  RoundDiv(bonus, hits, tie)

SentimentResult(label, score, confidence, hits, mentioned) ==
    [label |-> label, score |-> score, confidence |-> confidence,
     hits |-> hits, mentioned |-> mentioned]

\* analyze up to the end of its for loop: the locals
analyze_locals(lex, text, target_names) ==
    LET toks == tokenize(text)
        contribs == [i \in 1 .. Len(toks) |-> Contribution(lex, toks, i)]
    IN  [toks |-> toks,
         mentioned |-> toks # <<>> /\ Mentioned(toks, target_names),
         contribs |-> contribs,
         score_sum |-> SumSeq(contribs),
         hits |-> Cardinality({i \in 1 .. Len(toks) : _term_polarity(lex, toks[i]) # 0})]

analyze_result_FlatZeroHits(l, tie, err) ==
    IF l.toks = <<>> THEN SentimentResult("neutro", 0, 200, 0, FALSE)
    ELSE IF l.hits = 0 THEN SentimentResult("neutro", 0, 300, 0, l.mentioned)
    ELSE SentimentResult(LabelOf(l.score_sum, l.hits, err),
                         RoundDiv(l.score_sum * 10, l.hits, tie),
                         ConfidenceOf(l.score_sum, l.hits, l.mentioned, tie),
                         l.hits, l.mentioned)

analyze_result_NoEmptyCase(l, tie, err) ==
    IF l.hits = 0
        THEN SentimentResult("neutro", 0, 300 + (IF l.mentioned THEN 200 ELSE 0),
                             0, l.mentioned)
    ELSE SentimentResult(LabelOf(l.score_sum, l.hits, err),
                         RoundDiv(l.score_sum * 10, l.hits, tie),
                         ConfidenceOf(l.score_sum, l.hits, l.mentioned, tie),
                         l.hits, l.mentioned)

\* analyze from there on: the SentimentResult returned
analyze_result(l, tie, err) ==
    IF l.toks = <<>> THEN SentimentResult("neutro", 0, 200, 0, FALSE)
    ELSE IF l.hits = 0
        THEN SentimentResult("neutro", 0, 300 + (IF l.mentioned THEN 200 ELSE 0),
                             0, l.mentioned)
    ELSE SentimentResult(LabelOf(l.score_sum, l.hits, err),
                         RoundDiv(l.score_sum * 10, l.hits, tie),
                         ConfidenceOf(l.score_sum, l.hits, l.mentioned, tie),
                         l.hits, l.mentioned)

analyze(lex, text, target_names, tie, err) ==
    analyze_result(analyze_locals(lex, text, target_names), tie, err)

---------------------------------------------------------------------------
(* Actions *)

Init ==
    /\ analyzer = NoAnalyzer
    /\ call = NoCall
    /\ memo = NoMemo
    /\ report = NoReport
    /\ db = NoRows
    /\ fetch = NoFetch
    /\ scraper = NoScraper

\* One call of _derive_final_label on drawn arguments.
DeriveFinalLabel ==
    /\ call = NoCall
    /\ \E comment_res \in SentimentResults,
          article_res \in SentimentResults \cup {None},
          mentioned \in BOOLEAN, article_ref \in BOOLEAN,
          stance \in Stances, tie \in Ties :
            call' = [op |-> "_derive_final_label",
                     comment_res |-> comment_res,
                     article_res |-> article_res,
                     mentioned |-> mentioned,
                     article_ref |-> article_ref,
                     stance |-> stance,
                     ret |-> _derive_final_label(comment_res, article_res, mentioned,
                                                 article_ref, stance, tie)]
    /\ UNCHANGED <<analyzer, memo, report, db, fetch, scraper>>

\* The caller takes the result; the call's frame is gone.
Return ==
    /\ call # NoCall
    /\ call' = NoCall
    /\ UNCHANGED <<analyzer, memo, report, db, fetch, scraper>>

\* Lexicon(...) and TargetedLexiconAnalyzer(lex), or TargetedLexiconAnalyzer().
NewAnalyzer ==
    /\ call = NoCall
    /\ \E args \in LexiconArgs \cup {None} :
          analyzer' = TargetedLexiconAnalyzer(
              IF args = None THEN None
              ELSE Lexicon(args.pos, args.neg, args.negators,
                           args.intensifiers, args.diminishers))
    /\ UNCHANGED <<call, memo, report, db, fetch, scraper>>

\* One call of analyzer.analyze on a drawn text and drawn target names.
Analyze ==
    /\ call = NoCall
    /\ analyzer # NoAnalyzer
    /\ \E args \in AnalyzeArgs :
          LET text == args[1]
              target_names == args[2]
              l == analyze_locals(analyzer.lex, text, target_names)
          IN  \E tie \in Ties,
                     err \in IF OnThreshold(l.score_sum, l.hits) THEN FloatErrs ELSE {0} :
                call' = [op |-> "analyze", text |-> text, target_names |-> target_names,
                         toks |-> l.toks, contribs |-> l.contribs,
                         score_sum |-> l.score_sum, avg_err |-> err,
                         ret |-> analyze_result(l, tie, err)]
    /\ UNCHANGED <<analyzer, memo, report, db, fetch, scraper>>

\* One call of _has_article_reference on a drawn comment text.
HasArticleReference ==
    /\ call = NoCall
    /\ \E text \in CommentTexts :
          call' = [op |-> "_has_article_reference", text |-> text,
                   t |-> normalize_text(text),
                   ret |-> _has_article_reference(text)]
    /\ UNCHANGED <<analyzer, memo, report, db, fetch, scraper>>

\* One call of _detect_news_stance on a drawn comment text.
DetectNewsStance ==
    /\ call = NoCall
    /\ \E text \in CommentTexts :
          call' = [op |-> "_detect_news_stance", text |-> text,
                   t |-> normalize_text(text),
                   ret |-> _detect_news_stance(text)]
    /\ UNCHANGED <<analyzer, memo, report, db, fetch, scraper>>

Next ==
    \/ NewAnalyzer
    \/ Analyze
    \/ DeriveFinalLabel
    \/ HasArticleReference
    \/ DetectNewsStance
    \/ Return

Spec == Init /\ [][Next]_vars

---------------------------------------------------------------------------
(* Repeated calls: a caller keeps the result of one call of analyze or of  *)
(* _derive_final_label and goes on calling.  The floats of a call are a    *)
(* function of its inputs: a call on the arguments, and the lexicon, of    *)
(* the kept call rounds as the kept call did.                              *)

ProbeArgs ==
    { <<None, None>>,
      <<Str(<<"bom", "ruim", "Silva">>), List(<<"Ana Silva">>)>>,
      <<Str(<<"bom", "ruim", "Silva">>), None>>,
      <<Str(<<"pouco", "bom", "Não", "bom">>), None>>,
      <<Str(<<"Não", "muito", "bom">>), List(<<>>)>>,
      <<Str(<<"ruim">>), List(<<"", "  ", "Rui">>)>>,
      <<Str(<<"Silva", "mas">>), List(<<"Ana Silva">>)>>,
      <<Str(<<"...">>), List(<<"Ana Silva">>)>> }

ProbeResults ==
    { SentimentResult("neutro", 0, 300, 0, FALSE),
      SentimentResult("positivo", 10000, 1000, 1, TRUE),
      SentimentResult("negativo", -4000, 733, 2, FALSE) }

analyze_self_LearnsNegator(self, toks) ==
    IF toks = <<>> THEN self
    ELSE [self EXCEPT !.lex.negators = @ \cup {toks[1]}]

\* self after analyze: no statement of analyze assigns to self, to self.lex or
\* into one of its mappings
analyze_self(self, toks) == self

\* the caller keeps the call in progress
Keep ==
    /\ call # NoCall
    /\ memo = NoMemo
    /\ memo' = [call |-> call, analyzer |-> analyzer, other |-> FALSE]
    /\ UNCHANGED <<analyzer, call, report, db, fetch, scraper>>

\* the kept call, once a call on other arguments has been made after it
Noted(other) ==
    IF memo = NoMemo \/ ~other THEN memo ELSE [memo EXCEPT !.other = TRUE]

\* the analyzer is constructed before the kept call
Construct ==
    /\ memo = NoMemo
    /\ NewAnalyzer

AnalyzeAgain ==
    /\ call = NoCall
    /\ analyzer # NoAnalyzer
    /\ \E args \in ProbeArgs :
          LET text == args[1]
              target_names == args[2]
              l == analyze_locals(analyzer.lex, text, target_names)
              same == /\ memo # NoMemo
                      /\ memo.call.op = "analyze"
                      /\ memo.call.text = text
                      /\ memo.call.target_names = target_names
          IN  \E tie \in Ties,
                     err \in IF OnThreshold(l.score_sum, l.hits) THEN FloatErrs ELSE {0} :
                /\ (same /\ memo.analyzer = analyzer) =>
                       (tie = memo.call.tie /\ err = memo.call.avg_err)
                /\ call' = [op |-> "analyze", text |-> text,
                            target_names |-> target_names,
                            toks |-> l.toks, contribs |-> l.contribs,
                            score_sum |-> l.score_sum, avg_err |-> err, tie |-> tie,
                            ret |-> analyze_result(l, tie, err)]
                /\ analyzer' = analyze_self(analyzer, l.toks)
                /\ memo' = Noted(~same)
    /\ UNCHANGED <<report, db, fetch, scraper>>

DeriveAgain ==
    /\ call = NoCall
    /\ \E comment_res \in ProbeResults,
          article_res \in ProbeResults \cup {None},
          mentioned \in BOOLEAN, article_ref \in BOOLEAN,
          stance \in Stances, tie \in Ties :
            LET same == /\ memo # NoMemo
                        /\ memo.call.op = "_derive_final_label"
                        /\ memo.call.comment_res = comment_res
                        /\ memo.call.article_res = article_res
                        /\ memo.call.mentioned = mentioned
                        /\ memo.call.article_ref = article_ref
                        /\ memo.call.stance = stance
            IN  /\ same => tie = memo.call.tie
                /\ call' = [op |-> "_derive_final_label",
                            comment_res |-> comment_res,
                            article_res |-> article_res,
                            mentioned |-> mentioned,
                            article_ref |-> article_ref,
                            stance |-> stance, tie |-> tie,
                            ret |-> _derive_final_label(comment_res, article_res,
                                                        mentioned, article_ref,
                                                        stance, tie)]
                /\ memo' = Noted(~same)
    /\ UNCHANGED <<analyzer, report, db, fetch, scraper>>

NextCalls ==
    \/ Construct
    \/ AnalyzeAgain
    \/ DeriveAgain
    \/ Keep
    \/ Return

SpecCalls == Init /\ [][NextCalls]_vars

---------------------------------------------------------------------------
(* generate_sentiment_report.  The tables artigos and pessoas are fixed;   *)
(* artigos_pessoas and comentarios are the rows of db, which another       *)
(* process (the scraper, through SQLiteStorage) extends while the report   *)
(* reads.                                                                  *)

\* pessoas: id -> name
PersonName == (1 :> "Ana Silva") @@ (2 :> "Rui")

\* artigos: url -> title, url -> body, from the newest scraped_at to the oldest
ArticleUrls == <<"u1", "u2">>
ArticleTitle == ("u1" :> Str(<<"Silva", "bom">>)) @@ ("u2" :> None)
ArticleBody == ("u1" :> Str(<<"muito", "bom">>)) @@ ("u2" :> Str(<<"ruim">>))

\* comentarios: comment_key -> article_url, comment_key -> content
CommentKeys == <<"c1", "c2", "c3">>
CommentUrl == ("c1" :> "u1") @@ ("c2" :> "u1") @@ ("c3" :> "u2")
CommentContent ==
    ("c1" :> Str(<<"Não", "concordo", "matéria">>))
    @@ ("c2" :> Str(<<"Silva", "ruim">>)) @@ ("c3" :> None)

Pairs == {"u1", "u2"} \X DOMAIN PersonName

Databases ==
    [artigos_pessoas : SUBSET Pairs, comentarios : SUBSET {"c1", "c2", "c3"}]

\* the position of x in the sequence s
IndexOf(s, x) == CHOOSE i \in 1 .. Len(s) : s[i] = x

\* the elements of S from the lowest rank to the highest
RECURSIVE Ordered(_, _)
Ordered(S, rank) ==
    IF S = {} THEN <<>>
    ELSE LET first == CHOOSE x \in S : \A y \in S : rank[x] <= rank[y]
         IN  <<first>> \o Ordered(S \ {first}, rank)

\* ARTICLE_QUERY: artigos JOIN artigos_pessoas JOIN pessoas, ORDER BY
\* a.scraped_at DESC; a row is <<artigo_url, id_pessoa>>
ArticleQuery(d) ==
    Ordered(d.artigos_pessoas,
            [r \in d.artigos_pessoas |->
                Len(PersonName) * IndexOf(ArticleUrls, r[1]) + r[2]])

\* QUERY: the same join, JOIN comentarios, ORDER BY p.name, a.scraped_at DESC;
\* a row is <<artigo_url, id_pessoa, comment_key>>
CommentQuery(d) ==
    LET joined == {<<r[1], r[2], c>> : r \in d.artigos_pessoas, c \in d.comentarios}
        rows == {row \in joined : CommentUrl[row[3]] = row[1]}
    IN  Ordered(rows,
                [r \in rows |->
                    Len(CommentKeys) * (Len(ArticleUrls) * r[2] + IndexOf(ArticleUrls, r[1]))
                    + IndexOf(CommentKeys, r[3])])

\* target_variants: [nome_pessoa], and the last part of its normalized form
target_variants(nome_pessoa) ==
    LET parts == normalize(nome_pessoa)
    IN  List(IF parts # <<>> THEN <<nome_pessoa, parts[Len(parts)]>>
             ELSE <<nome_pessoa>>)

\* (titulo or "") + "\n\n" + (corpo or "")
texto(titulo, corpo) ==
    Str((IF titulo = None THEN <<>> ELSE titulo.words)
        \o (IF corpo = None THEN <<>> ELSE corpo.words))

\* conteudo or ""
OrEmpty(conteudo) == IF conteudo = None THEN Str(<<>>) ELSE conteudo

article_map_get_ByUrl(article_map, key) ==
    IF \E k \in DOMAIN article_map : k[1] = key[1]
    THEN article_map[CHOOSE k \in DOMAIN article_map : k[1] = key[1]]
    ELSE None

\* article_map.get(key)
article_map_get(article_map, key) ==
    IF key \in DOMAIN article_map THEN article_map[key] ELSE None

\* the float outcomes of one analyze
FloatOutcomes(l) ==
    Ties \X (IF OnThreshold(l.score_sum, l.hits) THEN FloatErrs ELSE {0})

InitReport ==
    /\ analyzer = NoAnalyzer
    /\ call = NoCall
    /\ memo = NoMemo
    /\ report = NoReport
    /\ db \in Databases
    /\ fetch = NoFetch
    /\ scraper = NoScraper

\* the caller constructs the analyzer it passes to generate_sentiment_report
PassAnalyzer ==
    /\ report = NoReport
    /\ NewAnalyzer

\* generate_sentiment_report up to the fetchall of _compute_article_sentiments
ReportStart ==
    /\ report = NoReport
    /\ call = NoCall
    /\ analyzer' = IF analyzer = NoAnalyzer THEN TargetedLexiconAnalyzer(None)
                   ELSE analyzer
    /\ report' = [pc |-> "article_rows", art_rows |-> ArticleQuery(db),
                  art_res |-> <<>>, analyzed |-> <<>>, article_map |-> <<>>,
                  rows |-> <<>>, out |-> <<>>]
    /\ UNCHANGED <<call, memo, db, fetch, scraper>>

\* one turn of the loop of _compute_article_sentiments
ArticleRow ==
    /\ report.pc = "article_rows"
    /\ report.art_rows # <<>>
    /\ LET row == Head(report.art_rows)
           artigo_url == row[1]
           id_pessoa == row[2]
           l == analyze_locals(analyzer.lex,
                               texto(ArticleTitle[artigo_url], ArticleBody[artigo_url]),
                               target_variants(PersonName[id_pessoa]))
       IN  \E f \in FloatOutcomes(l) :
              report' = [report EXCEPT
                            !.art_rows = Tail(@),
                            !.art_res = (<<artigo_url, id_pessoa>> :> analyze_result(l, f[1], f[2]))
                                            @@ report.art_res,
                            !.analyzed = Append(@, <<artigo_url, id_pessoa>>)]
    /\ UNCHANGED <<analyzer, call, memo, db, fetch, scraper>>

\* _compute_article_sentiments returns; cur.execute(QUERY) and fetchall
QueryComments ==
    /\ report.pc = "article_rows"
    /\ report.art_rows = <<>>
    /\ report' = [report EXCEPT !.pc = "comment_rows",
                                !.article_map = report.art_res,
                                !.rows = CommentQuery(db)]
    /\ UNCHANGED <<analyzer, call, memo, db, fetch, scraper>>

\* one turn of the loop over the comment rows
CommentRow ==
    /\ report.pc = "comment_rows"
    /\ report.rows # <<>>
    /\ LET row == Head(report.rows)
           artigo_url == row[1]
           id_pessoa == row[2]
           conteudo == CommentContent[row[3]]
           l == analyze_locals(analyzer.lex, OrEmpty(conteudo),
                               target_variants(PersonName[id_pessoa]))
           art_res == article_map_get(report.article_map, <<artigo_url, id_pessoa>>)
           ref == _has_article_reference(OrEmpty(conteudo))
           stance == _detect_news_stance(OrEmpty(conteudo))
       IN  \E f \in FloatOutcomes(l), tie \in Ties :
              LET res == analyze_result(l, f[1], f[2])
              IN  report' = [report EXCEPT
                                !.rows = Tail(@),
                                !.out = Append(@,
                                    [id_pessoa |-> id_pessoa, artigo_url |-> artigo_url,
                                     comment_key |-> row[3], res |-> res,
                                     art_res |-> art_res, ref |-> ref, stance |-> stance,
                                     final |-> _derive_final_label(res, art_res,
                                                   res.mentioned, ref, stance, tie)])]
    /\ UNCHANGED <<analyzer, call, memo, db, fetch, scraper>>

\* the rows are exhausted: the connection is closed, out_path returned
ReportEnd ==
    /\ report.pc = "comment_rows"
    /\ report.rows = <<>>
    /\ report' = [report EXCEPT !.pc = "done"]
    /\ UNCHANGED <<analyzer, call, memo, db, fetch, scraper>>

\* SQLiteStorage.link_article_people, in another process: INSERT OR IGNORE
LinkArticlePeople ==
    /\ report.pc # "done"
    /\ \E pair \in Pairs \ db.artigos_pessoas :
          db' = [db EXCEPT !.artigos_pessoas = @ \cup {pair}]
    /\ UNCHANGED <<analyzer, call, memo, report, fetch, scraper>>

NextReport ==
    \/ PassAnalyzer
    \/ ReportStart
    \/ ArticleRow
    \/ QueryComments
    \/ CommentRow
    \/ ReportEnd
    \/ LinkArticlePeople

ReportSpec == InitReport /\ [][NextReport]_vars

---------------------------------------------------------------------------
(* _derive_final_label on results of analyze: the comment and the article *)
(* result of a row of generate_sentiment_report are what analyze returns   *)
(* on some text and target names.                                          *)

\* every result analyze returns with the lexicon on the texts of the model
AnalyzeResults(lex) ==
    UNION { LET l == analyze_locals(lex, args[1], args[2])
            IN  {analyze_result(l, f[1], f[2]) : f \in FloatOutcomes(l)}
            : args \in AnalyzeArgs }

\* res, art_res of a row, and the call of _derive_final_label on them, with
\* res.mentioned as mentioned
DeriveOnAnalyzed ==
    /\ call = NoCall
    /\ analyzer # NoAnalyzer
    /\ LET results == AnalyzeResults(analyzer.lex)
       IN  \E comment_res \in results, article_res \in results \cup {None},
              article_ref \in BOOLEAN, stance \in Stances, tie \in Ties :
                call' = [op |-> "_derive_final_label",
                         comment_res |-> comment_res,
                         article_res |-> article_res,
                         mentioned |-> comment_res.mentioned,
                         article_ref |-> article_ref,
                         stance |-> stance,
                         ret |-> _derive_final_label(comment_res, article_res,
                                                     comment_res.mentioned,
                                                     article_ref, stance, tie)]
    /\ UNCHANGED <<analyzer, memo, report, db, fetch, scraper>>

NextAttribution ==
    \/ NewAnalyzer
    \/ DeriveOnAnalyzed
    \/ Return

AttributionSpec == Init /\ [][NextAttribution]_vars

---------------------------------------------------------------------------
(* aggregate_by_person.  A row of the source CSV is what csv.DictReader    *)
(* gives: each column a string in a Cell, or None where the file has no    *)
(* such column.                                                            *)

Cell(s) == [s |-> s]

\* a or b, for a a Cell or None: b when a is None or the empty string
OrElse(a, b) == IF a = None \/ a = Cell("") THEN b ELSE a

CsvPersons == {<<"1", "Ana Silva">>, <<"2", "Rui">>, <<"3", "Ana Silva">>}

\* sentimento_final, sentimento, alvo_mencionado of the rows of the model
CsvFields ==
    { <<Cell("positivo"), None, Cell("1")>>,
      <<Cell("negativo"), None, Cell("0")>>,
      <<Cell("neutro"), None, Cell("1")>>,
      <<Cell(""), Cell("positivo"), Cell("0")>>,
      <<None, Cell("negativo"), Cell("1")>>,
      <<None, None, None>>,
      <<Cell("misto"), Cell("positivo"), Cell("")>> }

CsvRows ==
    { [id_pessoa |-> p[1], nome_pessoa |-> p[2], sentimento_final |-> f[1],
       sentimento |-> f[2], alvo_mencionado |-> f[3]] : p \in CsvPersons, f \in CsvFields }

MaxRows == 2
CsvFiles == SeqsUpTo(MaxRows, CsvRows)

lab_FinalOnly(row) == OrElse(row.sentimento_final, Cell("neutro")).s

\* lab = row.get("sentimento_final") or row.get("sentimento") or "neutro"
lab(row) == OrElse(row.sentimento_final, OrElse(row.sentimento, Cell("neutro"))).s

\* row.get("alvo_mencionado") in ("1", 1)
IsMention(row) == row.alvo_mencionado = Cell("1")

ZeroCounts == [pos |-> 0, neg |-> 0, neu |-> 0, total |-> 0, mention |-> 0]

\* one turn of the loop over the rows: the counts of the row's key go up
CountRow(d, row) ==
    [pos |-> d.pos + (IF lab(row) = "positivo" THEN 1 ELSE 0),
     neg |-> d.neg + (IF lab(row) = "negativo" THEN 1 ELSE 0),
     neu |-> d.neu + (IF lab(row) \notin {"positivo", "negativo"} THEN 1 ELSE 0),
     total |-> d.total + 1,
     mention |-> d.mention + (IF IsMention(row) THEN 1 ELSE 0)]

\* counts after the loop over the rows: (pid, pname) -> counters
RECURSIVE Counts(_)
Counts(rows) ==
    IF rows = <<>> THEN <<>>
    ELSE LET before == Counts(SubSeq(rows, 1, Len(rows) - 1))
             row == rows[Len(rows)]
             key == <<row.id_pessoa, row.nome_pessoa>>
             d == IF key \in DOMAIN before THEN before[key] ELSE ZeroCounts
         IN  (key :> CountRow(d, row)) @@ before

\* the rank of a person name in the order of strings
NameRank == ("Ana Silva" :> 1) @@ ("Rui" :> 2)

\* the row at which a key was met first: the order of the dict
FirstRow(rows, key) ==
    CHOOSE i \in 1 .. Len(rows) :
        /\ <<rows[i].id_pessoa, rows[i].nome_pessoa>> = key
        /\ \A j \in 1 .. (i - 1) : <<rows[j].id_pessoa, rows[j].nome_pessoa>> # key

\* sorted(counts.items(), key=lambda kv: (-kv[1]["total"], kv[0][1])): a stable
\* sort
SortedKeys(rows, counts) ==
    Ordered(DOMAIN counts,
            [key \in DOMAIN counts |->
                ((Len(rows) - counts[key].total) * (Cardinality(DOMAIN NameRank) + 1)
                    + NameRank[key[2]]) * (Len(rows) + 1)
                + FirstRow(rows, key)])

\* f"{(n/tot):.3f}", in thousandths
Pct(n, total, tie) == RoundDiv(1000 * n, Max(1, total), tie)

\* the row written for one key
AggregateRow(key, d, tie) ==
    [id_pessoa |-> key[1], nome_pessoa |-> key[2],
     qtd_total |-> d.total, qtd_pos |-> d.pos, qtd_neg |-> d.neg, qtd_neu |-> d.neu,
     pct_pos |-> Pct(d.pos, d.total, tie), pct_neg |-> Pct(d.neg, d.total, tie),
     pct_neu |-> Pct(d.neu, d.total, tie),
     pct_mencao_direta |-> Pct(d.mention, d.total, tie)]

\* the rows of sentimento_agregado_por_pessoa.csv
aggregate_by_person(rows, tie) ==
    LET counts == Counts(rows)
        order == SortedKeys(rows, counts)
    IN  [i \in 1 .. Len(order) |-> AggregateRow(order[i], counts[order[i]], tie)]

\* One call of aggregate_by_person on a drawn source CSV.
AggregateByPerson ==
    /\ call = NoCall
    /\ \E rows \in CsvFiles, tie \in Ties :
          call' = [op |-> "aggregate_by_person", rows |-> rows,
                   counts |-> Counts(rows),
                   ret |-> aggregate_by_person(rows, tie)]
    /\ UNCHANGED <<analyzer, memo, report, db, fetch, scraper>>

NextAggregate ==
    \/ AggregateByPerson
    \/ Return

AggregateSpec == Init /\ [][NextAggregate]_vars

---------------------------------------------------------------------------
(* HttpClient.fetch, statement by statement.  session.get returns a        *)
(* response or raises within its timeout.                                  *)

\* for attempt in range(4)
Attempts == 4

\* if attempt == 3: raise e
LastAttempt == 3

\* resp.status_code >= 500
ServerError == 500

Response(status_code) == [status_code |-> status_code]

Raised(exception) == [exception |-> exception]

\* what one session.get does: a response, or an exception of requests
GetOutcomes ==
    {Response(s) : s \in {200, 404, 500, 503}}
    \cup {Raised(x) : x \in {"ConnectionError", "Timeout"}}

IsRaised(outcome) == "exception" \in DOMAIN outcome

IsServerError(resp) == resp.status_code >= ServerError

GiveUpLate(attempt) == attempt = LastAttempt + 1

GiveUp(attempt) == attempt = LastAttempt

\* client.fetch(url) is called
FetchCall ==
    /\ fetch.pc \in {"none", "returned", "raised"}
    /\ fetch' = [pc |-> "get", attempt |-> 0, gets |-> <<>>, slept |-> 0,
                 e |-> None, ret |-> None]
    /\ UNCHANGED <<analyzer, call, memo, report, db, scraper>>

\* resp = self.session.get(url, timeout=timeout), and the try block after it
Get ==
    /\ fetch.pc = "get"
    /\ \E outcome \in GetOutcomes :
          fetch' =
             IF IsRaised(outcome)
                 THEN [fetch EXCEPT !.gets = Append(@, outcome), !.pc = "except",
                                    !.e = outcome.exception]
             ELSE IF IsServerError(outcome)
                 THEN [fetch EXCEPT !.gets = Append(@, outcome), !.pc = "except",
                                    !.e = "HTTPError"]
             ELSE [fetch EXCEPT !.gets = Append(@, outcome), !.pc = "returned",
                                !.ret = outcome]
    /\ UNCHANGED <<analyzer, call, memo, report, db, scraper>>

\* except Exception as e: raise e on the last attempt
Except ==
    /\ fetch.pc = "except"
    /\ fetch' = [fetch EXCEPT !.pc = IF GiveUp(fetch.attempt) THEN "raised" ELSE "sleep"]
    /\ UNCHANGED <<analyzer, call, memo, report, db, scraper>>

\* time.sleep(1.0) and the next turn of the loop; the function ends without a
\* return statement when the loop is exhausted
Sleep ==
    /\ fetch.pc = "sleep"
    /\ fetch' = [fetch EXCEPT !.slept = @ + 1, !.attempt = @ + 1,
                              !.pc = IF fetch.attempt + 1 < Attempts THEN "get"
                                     ELSE "returned"]
    /\ UNCHANGED <<analyzer, call, memo, report, db, scraper>>

NextFetch ==
    \/ FetchCall
    \/ Get
    \/ Except
    \/ Sleep

FetchSpec == Init /\ [][NextFetch]_vars /\ WF_vars(NextFetch)

---------------------------------------------------------------------------
(* Scraper: the date filters.  The datetimes of the model are starts of    *)
(* months, 00:00 UTC: Date(m) is the start of month m of 2024, month 0     *)
(* being December 2023.                                                    *)

Date(month) == [month |-> month]

\* datetime.fromisoformat of the texts of the model; another text raises
IsoTime ==
    ("2024-01-01" :> 1) @@ ("2024-02-01" :> 2) @@ ("2024-03-01T00:00:00Z" :> 3)
    @@ ("2024-04-01T00:00:00+00:00" :> 4)

_parse_iso_to_utc(iso_text) ==
    IF iso_text \in DOMAIN IsoTime THEN Date(IsoTime[iso_text]) ELSE None

\* on a start of month the day needs no adjustment
_months_ago(dt, months) == Date(dt.month - months)

\* datetime.now(timezone.utc) at the construction of the Scraper
MaxMonth == 5
NowUtc == Date(MaxMonth)

\* cfg.months_back, cfg.date_after, cfg.date_before: DATE_AFTER and DATE_BEFORE
\* are texts of the environment, "" when unset
DateTexts == {"", "2024-02-01", "2024-04-01T00:00:00+00:00", "ontem"}
MaxMonthsBack == 2
DateConfigs ==
    [months_back : 0 .. MaxMonthsBack, date_after : DateTexts, date_before : DateTexts]

\* Scraper.__init__: the three date filters
Scraper(cfg) ==
    [constructed |-> TRUE,
     cfg |-> cfg,
     cutoff_utc |-> IF cfg.months_back > 0 THEN _months_ago(NowUtc, cfg.months_back)
                    ELSE None,
     start_utc |-> IF cfg.date_after # "" THEN _parse_iso_to_utc(cfg.date_after) ELSE None,
     end_utc |-> IF cfg.date_before # "" THEN _parse_iso_to_utc(cfg.date_before) ELSE None]

within_date_filters_CutoffAlways(self, dt) ==
    IF dt = None
        THEN ~(self.start_utc # None \/ self.end_utc # None \/ self.cutoff_utc # None)
    ELSE IF self.start_utc # None /\ dt.month < self.start_utc.month THEN FALSE
    ELSE IF self.end_utc # None /\ dt.month >= self.end_utc.month THEN FALSE
    ELSE IF self.cutoff_utc # None /\ dt.month < self.cutoff_utc.month THEN FALSE
    ELSE TRUE

_within_date_filters(self, dt) ==
    IF dt = None
        THEN ~(self.start_utc # None \/ self.end_utc # None \/ self.cutoff_utc # None)
    ELSE IF self.start_utc # None /\ dt.month < self.start_utc.month THEN FALSE
    ELSE IF self.end_utc # None /\ dt.month >= self.end_utc.month THEN FALSE
    ELSE IF (self.start_utc = None /\ self.end_utc = None)
            /\ self.cutoff_utc # None /\ dt.month < self.cutoff_utc.month THEN FALSE
    ELSE TRUE

Dates == {Date(m) : m \in 0 .. MaxMonth}

\* Scraper(cfg, client, parser)
NewScraper ==
    /\ call = NoCall
    /\ \E cfg \in DateConfigs : scraper' = Scraper(cfg)
    /\ UNCHANGED <<analyzer, call, memo, report, db, fetch>>

\* One call of self._within_date_filters on a drawn dt.
WithinDateFilters ==
    /\ call = NoCall
    /\ scraper # NoScraper
    /\ \E dt \in Dates \cup {None} :
          call' = [op |-> "_within_date_filters", dt |-> dt,
                   ret |-> _within_date_filters(scraper, dt)]
    /\ UNCHANGED <<analyzer, memo, report, db, fetch, scraper>>

NextDateFilters ==
    \/ NewScraper
    \/ WithinDateFilters
    \/ Return

DateFilterSpec == Init /\ [][NextDateFilters]_vars

---------------------------------------------------------------------------
(* Scraper.collect_links: one step per listing page.  A listing page is    *)
(* the sequence of its items, each a link and the date text of its time    *)
(* element as Parser._parse_iso_datetime leaves it, None without one.      *)

Links == {"/a", "/b"}
ItemDates == {None, Cell("2024-01-01"), Cell("2024-04-01T00:00:00+00:00")}
MaxItems == 2
ListingPages == SeqsUpTo(MaxItems, [url : Links, date_iso : ItemDates])

\* listing_start_page, listing_end_page (0 when unset), max_pages
PageRanges == {<<1, 0, 3>>, <<2, 1, 3>>, <<0, 2, 2>>}

ListingConfigs ==
    {[months_back |-> m, date_after |-> a, date_before |-> b,
      listing_item_selector |-> sel,
      listing_start_page |-> r[1], listing_end_page |-> r[2], max_pages |-> r[3]] :
        m \in {0, MaxMonthsBack}, a \in {"", "2024-02-01"},
        b \in {"", "2024-04-01T00:00:00+00:00"}, sel \in {"", "article"},
        r \in PageRanges}

\* what self.client.fetch(url) does: a response below 500, or it raises
ListingOutcomes ==
    {[status_code |-> 200, text |-> html] : html \in ListingPages}
    \cup {[status_code |-> 404, text |-> <<>>]}
    \cup {Raised("HTTPError")}

start_page(cfg) == Max(1, cfg.listing_start_page)

end_page(cfg) ==
    LET e == Min(cfg.max_pages,
                 IF cfg.listing_end_page # 0 THEN cfg.listing_end_page
                 ELSE cfg.max_pages)
    IN  IF e < start_page(cfg) THEN start_page(cfg) ELSE e

RECURSIVE unique_links_KeepLast(_)
unique_links_KeepLast(all_links) ==
    IF all_links = <<>> THEN <<>>
    ELSE LET rest == unique_links_KeepLast(Tail(all_links))
         IN  IF \E i \in DOMAIN rest : rest[i] = Head(all_links) THEN rest
             ELSE <<Head(all_links)>> \o rest

\* the loop over all_links with the set seen
RECURSIVE unique_links(_)
unique_links(all_links) ==
    IF all_links = <<>> THEN <<>>
    ELSE LET n == Len(all_links)
             seen == unique_links(SubSeq(all_links, 1, n - 1))
         IN  IF \E i \in DOMAIN seen : seen[i] = all_links[n] THEN seen
             ELSE Append(seen, all_links[n])

\* Parser.parse_listing: the links of the page, each once
parse_listing(html) == unique_links([i \in DOMAIN html |-> html[i].url])

\* Parser.parse_listing_items: the items of the page
parse_listing_items(html) == html

\* dt of an item in the loop over items
ItemDt(it) == IF it.date_iso # None THEN _parse_iso_to_utc(it.date_iso.s) ELSE None

\* page_dts after the loop over items
page_dts(items) ==
    LET Dated(it) == ItemDt(it) # None
        dated == SelectSeq(items, Dated)
    IN  [i \in DOMAIN dated |-> ItemDt(dated[i])]

\* the links appended to all_links in the loop over items; kept is their number
KeptLinks(self, items) ==
    LET Within(it) == _within_date_filters(self, ItemDt(it))
        kept == SelectSeq(items, Within)
    IN  [i \in DOMAIN kept |-> kept[i].url]

\* max(page_dts), for page_dts not empty
MaxDt(dts) == CHOOSE d \in {dts[i] : i \in DOMAIN dts} :
                  \A i \in DOMAIN dts : dts[i].month <= d.month

BreakOnEmptyPage_CutoffOnly(self, kept, dts) ==
    kept = 0 /\ self.cutoff_utc # None /\ ~(self.start_utc # None \/ self.end_utc # None)

\* the two breaks after the loop over items
BreakOnEmptyPage(self, kept, dts) ==
    \/ kept = 0 /\ self.cutoff_utc # None
       /\ ~(self.start_utc # None \/ self.end_utc # None)
    \/ kept = 0 /\ self.start_utc # None /\ dts # <<>>
       /\ MaxDt(dts).month < self.start_utc.month

\* Scraper(cfg, client, parser) with a listing configuration
NewListingScraper ==
    /\ call = NoCall
    /\ \E cfg \in ListingConfigs : scraper' = Scraper(cfg)
    /\ UNCHANGED <<analyzer, call, memo, report, db, fetch>>

\* self.collect_links() up to the loop over the pages
CollectLinks ==
    /\ call = NoCall
    /\ scraper # NoScraper
    /\ call' = [op |-> "collect_links", pc |-> "for",
                page |-> start_page(scraper.cfg),
                end_page |-> end_page(scraper.cfg),
                all_links |-> <<>>, pages |-> <<>>, slept |-> 0, ret |-> None]
    /\ UNCHANGED <<analyzer, memo, report, db, fetch, scraper>>

\* One pass of the loop: the fetch of the page, its items or links, the
\* breaks, the sleep.  pages is the log of the pages fetched: the page
\* number, the status, kept and the newest of page_dts.
ListingPage ==
    /\ call.op = "collect_links"
    /\ call.pc = "for"
    /\ call.page <= call.end_page
    /\ \E resp \in ListingOutcomes :
          IF IsRaised(resp)
              THEN call' = [call EXCEPT !.pc = "raised",
                               !.pages = Append(@, [page |-> call.page, status_code |-> 0,
                                                    kept |-> 0, newest |-> None])]
          ELSE IF resp.status_code # 200
              THEN call' = [call EXCEPT !.pc = "break",
                               !.pages = Append(@, [page |-> call.page,
                                                    status_code |-> resp.status_code,
                                                    kept |-> 0, newest |-> None])]
          ELSE IF scraper.cfg.listing_item_selector # ""
              THEN LET items == parse_listing_items(resp.text)
                       links == KeptLinks(scraper, items)
                       dts == page_dts(items)
                       stop == BreakOnEmptyPage(scraper, Len(links), dts)
                   IN  call' = [call EXCEPT
                           !.pc = IF stop THEN "break" ELSE "for",
                           !.page = IF stop THEN @ ELSE @ + 1,
                           !.slept = IF stop THEN @ ELSE @ + 1,
                           !.all_links = @ \o links,
                           !.pages = Append(@, [page |-> call.page, status_code |-> 200,
                                                kept |-> Len(links),
                                                newest |-> IF dts = <<>> THEN None
                                                           ELSE MaxDt(dts)])]
          ELSE LET links == parse_listing(resp.text)
               IN  call' = [call EXCEPT
                       !.page = @ + 1,
                       !.slept = @ + 1,
                       !.all_links = @ \o links,
                       !.pages = Append(@, [page |-> call.page, status_code |-> 200,
                                            kept |-> Len(links), newest |-> None])]
    /\ UNCHANGED <<analyzer, memo, report, db, fetch, scraper>>

\* after the loop: unique_links is returned
CollectLinksReturn ==
    /\ call.op = "collect_links"
    /\ \/ call.pc = "break"
       \/ call.pc = "for" /\ call.page > call.end_page
    /\ call' = [call EXCEPT !.pc = "returned", !.ret = List(unique_links(call.all_links))]
    /\ UNCHANGED <<analyzer, memo, report, db, fetch, scraper>>

\* the caller has the list, or the exception of the fetch
CollectLinksDone ==
    /\ call.op = "collect_links"
    /\ call.pc \in {"returned", "raised"}
    /\ call' = NoCall
    /\ UNCHANGED <<analyzer, memo, report, db, fetch, scraper>>

NextLinks ==
    \/ NewListingScraper
    \/ CollectLinks
    \/ ListingPage
    \/ CollectLinksReturn
    \/ CollectLinksDone

LinksSpec == Init /\ [][NextLinks]_vars

---------------------------------------------------------------------------
(* SQLiteStorage: the tables artigos, pessoas, artigos_pessoas and          *)
(* comentarios as the connection sees them.  artigos maps a url to the     *)
(* fields of its row, pessoas a name_norm to id and name, comentarios a    *)
(* comment_key to the fields of its row; artigos_pessoas is a set of       *)
(* pairs <<article_url, person_id>>.                                       *)

EmptyTable == <<>>

\* the tables after _create_schema on a new database file
NewSchema ==
    [artigos |-> EmptyTable, pessoas |-> EmptyTable, artigos_pessoas |-> {},
     comentarios |-> EmptyTable]

\* INSERT ... ON CONFLICT(key) DO UPDATE SET every other column
Upsert(table, key, fields) == (key :> fields) @@ table

\* SQLiteStorage._norm and filtering._normalize of a name: the words of
\* normalize, joined by one blank
_norm(name) == NormalizedName[name]

\* SQLiteStorage.upsert_article
upsert_article(d, item) ==
    [d EXCEPT !.artigos = Upsert(@, item.url,
                                 [title |-> item.title, body |-> item.body,
                                  date_iso |-> item.date_iso,
                                  matched_names |-> item.matched_names])]

\* the id AUTOINCREMENT gives to a new row of pessoas
NextId(pessoas) ==
    1 + (IF DOMAIN pessoas = {} THEN 0
         ELSE CHOOSE m \in {pessoas[k].id : k \in DOMAIN pessoas} :
                  \A k \in DOMAIN pessoas : pessoas[k].id <= m)

\* SQLiteStorage.upsert_person: the tables after it and the id it returns
upsert_person(d, name) ==
    LET nn == _norm(name)
    IN  IF nn = <<>> THEN [db |-> d, id |-> 0]
        ELSE LET id == IF nn \in DOMAIN d.pessoas THEN d.pessoas[nn].id
                       ELSE NextId(d.pessoas)
             IN  [db |-> [d EXCEPT !.pessoas = Upsert(@, nn, [id |-> id, name |-> name])],
                  id |-> id]

\* SQLiteStorage.ensure_people: the tables after it and the ids
RECURSIVE ensure_people(_, _)
ensure_people(d, names) ==
    IF names = <<>> THEN [db |-> d, ids |-> <<>>]
    ELSE LET p == upsert_person(d, Head(names))
             rest == ensure_people(p.db, Tail(names))
         IN  [db |-> rest.db,
              ids |-> IF p.id # 0 THEN <<p.id>> \o rest.ids ELSE rest.ids]

\* SQLiteStorage.link_article_people: INSERT OR IGNORE of each pair
link_article_people(d, article_url, names) ==
    LET e == ensure_people(d, names)
    IN  [e.db EXCEPT !.artigos_pessoas =
            @ \cup {<<article_url, e.ids[i]>> : i \in DOMAIN e.ids}]

\* hashlib.sha1(...).hexdigest() of article_url + "\n" + content
Sha1Hex ==
    (<<"/a", "bom">> :> "26e572d35fd599f0c9a206f4661e9b14a40a8538")
    @@ (<<"/a", "ruim">> :> "6bd7467bb27239c8908edbe5b193b85b829bb593")
    @@ (<<"/b", "bom">> :> "ed44f025cb601741555a8369ac4b55413b0cbdcb")
    @@ (<<"/b", "ruim">> :> "c85903c7e3b7f9324c0a07cf8f3adff2834be779")
    @@ (<<"/a", "">> :> "1d7a30b0c6b39cb5c7df596d89c0080bed579e90")
    @@ (<<"/b", "">> :> "01634577217c27dd632e8b1e9a7fd0324ff973c5")

comment_key_IdOnly(row) ==
    IF row.comment_id # "" THEN row.comment_id
    ELSE Sha1Hex[<<row.article_url, row.content>>]

\* SQLiteStorage._comment_key
_comment_key(row) ==
    IF row.comment_id # "" THEN row.comment_id
    ELSE IF row.permalink # "" THEN row.permalink
    ELSE Sha1Hex[<<row.article_url, row.content>>]

\* SQLiteStorage.upsert_comments: executemany upserts the rows one after the
\* other; a row whose article_url is not a url of artigos fails the foreign key
\* and the IntegrityError leaves the rows before it written
RECURSIVE upsert_comments(_, _)
upsert_comments(d, rows) ==
    IF rows = <<>> THEN [db |-> d, raised |-> FALSE]
    ELSE LET r == Head(rows)
         IN  IF r.article_url \notin DOMAIN d.artigos THEN [db |-> d, raised |-> TRUE]
             ELSE upsert_comments(
                      [d EXCEPT !.comentarios = Upsert(@, _comment_key(r), r)],
                      Tail(rows))

---------------------------------------------------------------------------
(* Scraper.scrape_articles: the steps taken for each url of links.  An     *)
(* article page is its title and body (the raw words of each), the date    *)
(* text of its time element and its comments.                              *)

\* filtering._normalize of each raw word of the pages
NormalizedRaw ==
    ("Ana" :> "ana") @@ ("Silva" :> "silva") @@ ("Rui" :> "rui") @@ ("bom" :> "bom")

\* filtering._normalize: lower case, no accents, blanks collapsed
_normalize(text) == [i \in DOMAIN text.words |-> NormalizedRaw[text.words[i]]]

\* NameFilter(names): original, the names that are not blank, and normalized
NameFilter(names) ==
    LET NotBlank(n) == NormalizedName[n] # <<>>
        original == SelectSeq(names, NotBlank)
    IN  [original |-> original,
         normalized |-> [i \in DOMAIN original |-> NormalizedName[original[i]]]]

enabled(self) == Len(self.normalized) > 0

\* NameFilter.match: (matched, matched_names)
match(self, text) ==
    IF ~enabled(self) THEN [matched |-> TRUE, matched_names |-> <<>>]
    ELSE LET nt == Join(_normalize(text))
             In(n) == IsSubstring(Join(NormalizedName[n]), nt)
             matched == SelectSeq(self.original, In)
         IN  [matched |-> Len(matched) > 0, matched_names |-> matched]

\* the comments Parser.parse_comments finds on a page of url
PageComments(url) ==
    {<<>>,
     <<[article_url |-> url, comment_id |-> "c1", permalink |-> "", content |-> "bom"]>>,
     <<[article_url |-> url, comment_id |-> "", permalink |-> "", content |-> "ruim"],
       [article_url |-> url, comment_id |-> "", permalink |-> "/p#c2", content |-> "bom"]>>}

ArticlePages(url) ==
    [title : {Str(<<>>), Str(<<"Ana">>), Str(<<"Rui">>)},
     body : {Str(<<"bom">>), Str(<<"Silva", "bom">>)},
     date_iso : ItemDates,
     comments : PageComments(url)]

\* what self.client.fetch(url) does for an article
ArticleOutcomes(url) ==
    {[status_code |-> 200, text |-> html] : html \in ArticlePages(url)}
    \cup {[status_code |-> 404, text |-> None]}
    \cup {Raised("HTTPError")}

ScrapeConfigs ==
    [months_back : {0, MaxMonthsBack}, date_after : {"", "2024-02-01"}, date_before : {""},
     names : {<<>>, <<"Ana Silva">>, <<"  ", "Rui", "Ana Silva">>}]

\* the lists collect_links returns: no url twice
LinkLists == {links \in SeqsUpTo(Cardinality(Links), Links) :
                 \A i, j \in DOMAIN links : links[i] = links[j] => i = j}

\* Parser.parse_article
parse_article(html, url) ==
    [url |-> url, title |-> html.title, body |-> html.body, date_iso |-> html.date_iso]

PassesFilters_NamesOnly(self, adt, matched) == matched

\* the article is not skipped by the filters: the date, then the names
PassesFilters(self, adt, matched) == _within_date_filters(self, adt) /\ matched

\* Scraper(cfg, client, parser): the name filter and the storage on a new file
NewScrapeScraper ==
    /\ call = NoCall
    /\ \E cfg \in ScrapeConfigs : scraper' = Scraper(cfg)
    /\ db' = NewSchema
    /\ UNCHANGED <<analyzer, call, memo, report, fetch>>

\* self.scrape_articles(links) up to the loop, once on each database file
ScrapeArticles ==
    /\ call = NoCall
    /\ scraper # NoScraper
    /\ db = NewSchema
    /\ \E links \in LinkLists :
          call' = [op |-> "scrape_articles", links |-> links, i |-> 1,
                   pc |-> IF links = <<>> THEN "done" ELSE "fetch",
                   fetched |-> <<>>, events |-> <<>>, item |-> None, html |-> None]
    /\ UNCHANGED <<analyzer, memo, report, db, fetch, scraper>>

Url == call.links[call.i]

\* the fetch of the url, parse_article and the two filters
ArticleFetch ==
    /\ call.op = "scrape_articles"
    /\ call.pc = "fetch"
    /\ \E resp \in ArticleOutcomes(Url) :
          LET logged == [call EXCEPT !.fetched = Append(@, [url |-> Url, resp |-> resp])]
          IN  IF IsRaised(resp) \/ resp.status_code # 200
                  THEN call' = [logged EXCEPT !.pc = "finally"]
              ELSE LET item == parse_article(resp.text, Url)
                       m == match(NameFilter(scraper.cfg.names),
                                  Str(item.title.words \o item.body.words))
                   IN  IF ~PassesFilters(scraper, ItemDt(item), m.matched)
                           THEN call' = [logged EXCEPT !.pc = "finally"]
                       ELSE call' = [logged EXCEPT
                               !.pc = "upsert_article",
                               !.html = resp.text,
                               !.item = [url |-> item.url, title |-> item.title,
                                         body |-> item.body, date_iso |-> item.date_iso,
                                         matched_names |-> m.matched_names]]
    /\ UNCHANGED <<analyzer, memo, report, db, fetch, scraper>>

\* self.storage.upsert_article(item)
UpsertArticle ==
    /\ call.op = "scrape_articles"
    /\ call.pc = "upsert_article"
    /\ db' = upsert_article(db, call.item)
    /\ call' = [call EXCEPT
           !.pc = IF call.item.matched_names # <<>> THEN "link_article_people"
                  ELSE "upsert_comments",
           !.events = Append(@, <<"upsert_article", Url>>)]
    /\ UNCHANGED <<analyzer, memo, report, fetch, scraper>>

\* self.storage.link_article_people(item["url"], matched_names)
LinkPeople ==
    /\ call.op = "scrape_articles"
    /\ call.pc = "link_article_people"
    /\ db' = link_article_people(db, call.item.url, call.item.matched_names)
    /\ call' = [call EXCEPT !.pc = "upsert_comments",
                            !.events = Append(@, <<"link_article_people", Url>>)]
    /\ UNCHANGED <<analyzer, memo, report, fetch, scraper>>

\* parse_comments and self.storage.upsert_comments(parsed_comments)
UpsertComments ==
    /\ call.op = "scrape_articles"
    /\ call.pc = "upsert_comments"
    /\ db' = upsert_comments(db, call.html.comments).db
    /\ call' = [call EXCEPT !.pc = "finally",
                            !.events = Append(@, <<"upsert_comments", Url>>)]
    /\ UNCHANGED <<analyzer, memo, report, fetch, scraper>>

\* finally: self._sleep(); then the next url
SleepAfter ==
    /\ call.op = "scrape_articles"
    /\ call.pc = "finally"
    /\ call' = [call EXCEPT
           !.pc = IF call.i = Len(call.links) THEN "done" ELSE "fetch",
           !.i = @ + 1,
           !.item = None, !.html = None,
           !.events = Append(@, <<"sleep", Url>>)]
    /\ UNCHANGED <<analyzer, memo, report, db, fetch, scraper>>

\* the two data frames are returned
ScrapeDone ==
    /\ call.op = "scrape_articles"
    /\ call.pc = "done"
    /\ call' = NoCall
    /\ UNCHANGED <<analyzer, memo, report, db, fetch, scraper>>

NextScrape ==
    \/ NewScrapeScraper
    \/ ScrapeArticles
    \/ ArticleFetch
    \/ UpsertArticle
    \/ LinkPeople
    \/ UpsertComments
    \/ SleepAfter
    \/ ScrapeDone

ScrapeSpec == Init /\ [][NextScrape]_vars

---------------------------------------------------------------------------
(* SQLiteStorage.__post_init__ on a database file: the migration of the    *)
(* tables people, articles, comments, article_people to pessoas, artigos,  *)
(* comentarios, artigos_pessoas.  A file is the set of the names of its    *)
(* tables and, for each of the eight tables, the set of its rows (empty    *)
(* for a table that does not exist).                                       *)

OldTables == {"people", "articles", "comments", "article_people"}
NewTables == {"pessoas", "artigos", "comentarios", "artigos_pessoas"}

\* rows written by the version of the program with the English names
PeopleRows ==
    {[id |-> 1, name |-> "Ana", name_norm |-> "ana"],
     [id |-> 2, name |-> "Rui", name_norm |-> "rui"]}
ArticleRows == {[url |-> "/a", title |-> "old"]}
CommentRows ==
    {[comment_key |-> "c1", article_url |-> "/a"],
     [comment_key |-> "c2", article_url |-> "/zz"]}
ArticlePeopleRows == {[article_url |-> "/a", person_id |-> 1]}

\* rows written by the version with the Portuguese names
PessoasRows == {[id |-> 1, name |-> "Rui", name_norm |-> "rui"]}
ArtigosRows == {[url |-> "/a", title |-> "new"]}

\* the files __post_init__ may be given: any of the old tables, and the new
\* tables when the file was already opened by this version
Files ==
    {[tables |-> old \cup new,
      people |-> IF "people" \in old THEN p ELSE {},
      articles |-> IF "articles" \in old THEN a ELSE {},
      comments |-> IF "comments" \in old THEN c ELSE {},
      article_people |-> IF "article_people" \in old THEN ap ELSE {},
      pessoas |-> IF new # {} THEN ps ELSE {},
      artigos |-> IF new # {} THEN ar ELSE {},
      comentarios |-> {},
      artigos_pessoas |-> {}] :
        old \in SUBSET OldTables, new \in {{}, NewTables},
        p \in SUBSET PeopleRows, a \in SUBSET ArticleRows, c \in SUBSET CommentRows,
        ap \in SUBSET ArticlePeopleRows, ps \in SUBSET PessoasRows,
        ar \in SUBSET ArtigosRows}

\* table_exists(name)
table_exists(d, name) == name \in d.tables

\* _create_schema: CREATE TABLE IF NOT EXISTS for the four new tables
_create_schema(d) == [d EXCEPT !.tables = @ \cup NewTables]

\* INSERT OR IGNORE INTO pessoas ... SELECT ... FROM people: a row whose id or
\* name_norm is taken is left out
CopyPeople(d) ==
    [d EXCEPT !.pessoas = @ \cup
        {r \in d.people : \A x \in d.pessoas : x.id # r.id /\ x.name_norm # r.name_norm}]

\* INSERT OR IGNORE INTO artigos ... FROM articles: a row whose url is taken
\* is left out
CopyArticles(d) ==
    [d EXCEPT !.artigos = @ \cup {r \in d.articles : \A x \in d.artigos : x.url # r.url}]

\* the rows INSERT OR IGNORE INTO comentarios ... FROM comments inserts
NewComments(d) ==
    {r \in d.comments : \A x \in d.comentarios : x.comment_key # r.comment_key}

\* the rows INSERT OR IGNORE INTO artigos_pessoas ... FROM article_people inserts
NewArticlePeople(d) == d.article_people \ d.artigos_pessoas

\* FOREIGN KEY(article_url) REFERENCES artigos(url)
ArticleKnown(d, r) == \E x \in d.artigos : x.url = r.article_url

\* FOREIGN KEY(person_id) REFERENCES pessoas(id)
PersonKnown(d, r) == \E x \in d.pessoas : x.id = r.person_id

\* the four DROP TABLE IF EXISTS
DropOldTables(d) ==
    [d EXCEPT !.tables = @ \ OldTables, !.people = {}, !.articles = {},
              !.comments = {}, !.article_people = {}]

\* _migrate_table_names: the file after it and whether it raised.  io_error
\* is a statement that fails for a reason outside the rows (a locked or full
\* file); ROLLBACK leaves what _create_schema committed before BEGIN.
_migrate_table_names(d, io_error) ==
    LET created == _create_schema(d)
        d1 == IF table_exists(created, "people") THEN CopyPeople(created) ELSE created
        d2 == IF table_exists(d1, "articles") THEN CopyArticles(d1) ELSE d1
        comments_ok == table_exists(d2, "comments") =>
                           \A r \in NewComments(d2) : ArticleKnown(d2, r)
        d3 == IF table_exists(d2, "comments")
                  THEN [d2 EXCEPT !.comentarios = @ \cup NewComments(d2)] ELSE d2
        links_ok == table_exists(d3, "article_people") =>
                        \A r \in NewArticlePeople(d3) :
                            ArticleKnown(d3, r) /\ PersonKnown(d3, r)
        d4 == IF table_exists(d3, "article_people")
                  THEN [d3 EXCEPT !.artigos_pessoas = @ \cup NewArticlePeople(d3)] ELSE d3
    IN  IF io_error \/ ~comments_ok \/ ~links_ok
            THEN [db |-> created, raised |-> TRUE]
        ELSE [db |-> DropOldTables(d4), raised |-> FALSE]

\* a database file is chosen: cfg.db_path or --db of migrate_tables
ChooseFile ==
    /\ call = NoCall
    /\ db = NoRows
    /\ db' \in Files
    /\ UNCHANGED <<analyzer, call, memo, report, fetch, scraper>>

\* SQLiteStorage(db_path): __post_init__ migrates, then _create_schema again
PostInit ==
    /\ call = NoCall
    /\ db # NoRows
    /\ "tables" \in DOMAIN db
    /\ \E io_error \in BOOLEAN :
          LET m == _migrate_table_names(db, io_error)
          IN  /\ db' = IF m.raised THEN m.db ELSE _create_schema(m.db)
              /\ call' = [op |-> "__post_init__", before |-> db, raised |-> m.raised]
    /\ UNCHANGED <<analyzer, memo, report, fetch, scraper>>

\* st.close(), or the exception reaches the caller
Close ==
    /\ call.op = "__post_init__"
    /\ call' = NoCall
    /\ UNCHANGED <<analyzer, memo, report, db, fetch, scraper>>

NextMigration ==
    \/ ChooseFile
    \/ PostInit
    \/ Close

MigrationSpec == Init /\ [][NextMigration]_vars

---------------------------------------------------------------------------
(* SQLiteStorage.upsert_comments, call after call on one storage.  As in   *)
(* scrape_articles the comments of a call belong to articles that were     *)
(* upserted before.  memo.upserts is the history of the rows passed.       *)

\* the rows Parser.parse_comments builds for the comments of url
CommentsOf(url) ==
    [article_url : {url}, comment_id : {"", "c1"}, permalink : {"", "/p#c1"},
     content : {"bom", "ruim"}]

MaxBatch == 2
MaxUpserts == 3

\* the lists of at most n comments of the articles urls
Batches(urls, n) == SeqsUpTo(n, UNION {CommentsOf(u) : u \in urls})

\* SQLiteStorage(db_path) on a new file
NewStorage ==
    /\ call = NoCall
    /\ db = NoRows
    /\ db' = NewSchema
    /\ memo' = [upserts |-> <<>>]
    /\ UNCHANGED <<analyzer, call, report, fetch, scraper>>

\* self.storage.upsert_article(item) for one more article
StoreArticle ==
    /\ call = NoCall
    /\ "upserts" \in DOMAIN memo
    /\ \E url \in Links \ DOMAIN db.artigos :
          db' = upsert_article(db, [url |-> url, title |-> Str(<<"Ana">>),
                                    body |-> Str(<<"bom">>), date_iso |-> None,
                                    matched_names |-> <<>>])
    /\ UNCHANGED <<analyzer, call, memo, report, fetch, scraper>>

\* self.storage.upsert_comments(rows)
StoreComments ==
    /\ call = NoCall
    /\ "upserts" \in DOMAIN memo
    /\ \E rows \in Batches(DOMAIN db.artigos,
                             Min(MaxBatch, MaxUpserts - Len(memo.upserts))) :
          /\ LET done == upsert_comments(db, rows)
             IN  /\ db' = done.db
                 /\ call' = [op |-> "upsert_comments", rows |-> rows,
                             raised |-> done.raised]
          /\ memo' = [upserts |-> memo.upserts \o rows]
    /\ UNCHANGED <<analyzer, report, fetch, scraper>>

\* the call is over
StoreCommentsDone ==
    /\ call.op = "upsert_comments"
    /\ call' = NoCall
    /\ UNCHANGED <<analyzer, memo, report, db, fetch, scraper>>

NextStorage ==
    \/ NewStorage
    \/ StoreArticle
    \/ StoreComments
    \/ StoreCommentsDone

StorageSpec == Init /\ [][NextStorage]_vars

---------------------------------------------------------------------------
(* Properties of _derive_final_label *)

IsDerive == call.op = "_derive_final_label"

\* "determinate": there is a result, it has hits > 0 and its label is not neutro
Determinate(res) == res # None /\ res.hits > 0 /\ res.label # "neutro"

Flipped(label) ==
    IF label = "positivo" THEN "negativo"
    ELSE IF label = "negativo" THEN "positivo" ELSE label

\* x4 (1e-4 units) rounded to 3 decimal places: a whole number of thousandths,
\* no further than half a thousandth from x4
IsRounded3(c4, x4) == c4 % 10 = 0 /\ Abs(c4 - x4) <= 5

Clamp(x, lo, hi) == IF x < lo THEN lo ELSE IF x > hi THEN hi ELSE x

StanceCase ==
    /\ IsDerive
    /\ ~call.mentioned
    /\ call.article_ref
    /\ Determinate(call.article_res)
    /\ call.stance \in {"concorda", "discorda"}

StanceLabelOrigin ==
    /\ call.ret.label = IF call.stance = "concorda" THEN call.article_res.label
                        ELSE Flipped(call.article_res.label)
    /\ call.ret.origin = "alinhamento_noticia_stance"

\* C1 as stated: no mention, article reference, determinate article, stance
\* concorda/discorda: the final label is the article's label (concorda) or its
\* opposite (discorda), the confidence is exactly min(1.0, 0.6 + 0.4 * article
\* confidence), the origin is alinhamento_noticia_stance.
C1_AsStated ==
    StanceCase =>
        /\ StanceLabelOrigin
        /\ call.ret.confidence = Min(10000, 6000 + 4 * call.article_res.confidence)

\* C1 amended: as C1, with the confidence min(1.0, 0.6 + 0.4 * article
\* confidence) rounded to 3 decimal places; whatever the comment's result is.
C1_StanceAlignment ==
    StanceCase =>
        /\ StanceLabelOrigin
        /\ IsRounded3(call.ret.confidence,
                      Min(10000, 6000 + 4 * call.article_res.confidence))

\* C1 witness: a neutral comment with hits = 0 disagreeing with a positive
\* article of confidence 0.733 is labelled negativo with confidence 0.893.
C1_Witness ==
    /\ StanceCase
    /\ call.stance = "discorda"
    /\ call.comment_res.label = "neutro" /\ call.comment_res.hits = 0
    /\ call.article_res.label = "positivo" /\ call.article_res.confidence = 733
    /\ call.ret.label = "negativo" /\ call.ret.confidence = 8930

CommentCase ==
    /\ IsDerive
    /\ ~call.mentioned
    /\ call.article_ref
    /\ Determinate(call.article_res)
    /\ call.stance = "indefinido"
    /\ Determinate(call.comment_res)

CommentLabelOrigin ==
    /\ call.ret.label = IF call.article_res.label = "positivo" THEN call.comment_res.label
                        ELSE Flipped(call.comment_res.label)
    /\ call.ret.origin = "alinhamento_noticia"

C3_DirectMentionFirst ==
    (IsDerive /\ call.mentioned) =>
        /\ call.ret.label = call.comment_res.label
        /\ call.ret.confidence = call.comment_res.confidence * 10
        /\ call.ret.origin = "comentario_direto"

\* C3 witness: a mentioned comment without article reference, under a
\* determinate article and an explicit stance, keeps its own positive label.
C3_Witness ==
    /\ IsDerive
    /\ call.mentioned
    /\ ~call.article_ref
    /\ Determinate(call.article_res)
    /\ call.article_res.label = "negativo"
    /\ call.stance = "concorda"
    /\ call.comment_res.label = "positivo"
    /\ call.ret.label = "positivo"
    /\ call.ret.origin = "comentario_direto"

\* C4: mentioned false and article_ref false give neutro, confidence
\* clamp(comment confidence * 0.5, 0.25, 0.5) and origin indefinido, whatever the
\* article result (present, determinate or None) and the stance are.
C4_NoMentionNoReference ==
    (IsDerive /\ ~call.mentioned /\ ~call.article_ref) =>
        /\ call.ret.label = "neutro"
        /\ call.ret.confidence = Clamp(call.comment_res.confidence * 5, 2500, 5000)
        /\ call.ret.origin = "indefinido"

\* C4 witness: a determinate article and an explicit stance, a comment of
\* confidence 0.2 without mention or reference: neutro at the floor 0.25.
C4_Witness ==
    /\ IsDerive
    /\ ~call.mentioned
    /\ ~call.article_ref
    /\ Determinate(call.article_res)
    /\ call.stance = "concorda"
    /\ call.comment_res.confidence = 200
    /\ call.ret.label = "neutro"
    /\ call.ret.confidence = 2500

NoAlignmentRule ==
    \/ call.article_res = None
    \/ call.article_res.hits = 0
    \/ call.article_res.label = "neutro"
    \/ /\ call.stance = "indefinido"
       /\ (call.comment_res.label = "neutro" \/ call.comment_res.hits = 0)

\* C5: mentioned false, article_ref true and no alignment rule applicable (the
\* article result is None, has hits = 0 or is neutral, or the stance is
\* indefinido and the comment is neutral or has hits = 0): the call returns
\* neutro, confidence clamp(comment confidence * 0.5, 0.25, 0.5), indefinido.
C5_Fallback ==
    (IsDerive /\ ~call.mentioned /\ call.article_ref /\ NoAlignmentRule) =>
        /\ call.ret.label = "neutro"
        /\ call.ret.confidence = Clamp(call.comment_res.confidence * 5, 2500, 5000)
        /\ call.ret.origin = "indefinido"

\* C5 witness: the article result is missing (None), the comment refers to the
\* article and agrees: the call returns the fallback.
C5_Witness ==
    /\ IsDerive
    /\ ~call.mentioned
    /\ call.article_ref
    /\ call.article_res = None
    /\ call.stance = "concorda"
    /\ call.comment_res.label = "positivo"
    /\ call.ret.label = "neutro"
    /\ call.ret.origin = "indefinido"

\* C6: with mentioned false, a non-neutral final label is returned only if
\* article_ref is true, the article result is determinate, and the stance is
\* concorda/discorda or the comment result is itself determinate.
C6_NoUnanchoredAttribution ==
    (IsDerive /\ ~call.mentioned /\ call.ret.label # "neutro") =>
        /\ call.article_ref
        /\ Determinate(call.article_res)
        /\ (call.stance \in {"concorda", "discorda"} \/ Determinate(call.comment_res))

\* C6 witness: an unmentioned comment is attributed negativo through its own
\* determinate tone, with no explicit stance.
C6_Witness ==
    /\ IsDerive
    /\ ~call.mentioned
    /\ call.stance = "indefinido"
    /\ call.ret.label = "negativo"
    /\ call.ret.origin = "alinhamento_noticia"


---------------------------------------------------------------------------
(* Properties of Lexicon and TargetedLexiconAnalyzer *)

IsAnalyze == call.op = "analyze"

\* C7 as stated: no analyzer exists whose lexicon has a word in both the
\* positive and the negative mapping (such a lexicon is rejected at
\* construction).
C7_NoOverlappingLexicon ==
    analyzer # NoAnalyzer =>
        (DOMAIN analyzer.lex.pos) \cap (DOMAIN analyzer.lex.neg) = {}

Sign(x) == IF x > 0 THEN 1 ELSE IF x < 0 THEN -1 ELSE 0

Polarized(i) == _term_polarity(analyzer.lex, call.toks[i]) # 0

\* scanning back from i - 1 over at most 3 tokens, a negator is reached before
\* any of the clause-boundary tokens mas, porem, so
NegatorReached(i) ==
    \E k \in 1 .. 3 :
        /\ i - k >= 1
        /\ call.toks[i - k] \in analyzer.lex.negators
        /\ \A m \in 1 .. (k - 1) : call.toks[i - m] \notin {"mas", "porem", "so"}

\* C8: a polarized token at index i has its sign inverted if and only if,
\* scanning backward from i-1 over at most 3 tokens, a negator is reached before
\* any clause-boundary token; a negator 4 or more tokens back, or behind a
\* clause boundary, does not invert it, and several negators invert it once.
C8_NegationWindow ==
    IsAnalyze =>
        \A i \in 1 .. Len(call.toks) :
            Polarized(i) =>
                Sign(call.contribs[i]) =
                    IF NegatorReached(i)
                    THEN -Sign(_term_polarity(analyzer.lex, call.toks[i]))
                    ELSE Sign(_term_polarity(analyzer.lex, call.toks[i]))

\* C8 witness: a polarized token with a negator exactly 4 tokens before it, no
\* negator and no clause boundary in between, keeps the sign of its polarity.
C8_Witness ==
    /\ IsAnalyze
    /\ \E i \in 5 .. Len(call.toks) :
          /\ Polarized(i)
          /\ call.toks[i - 4] \in analyzer.lex.negators
          /\ \A m \in 1 .. 3 :
                call.toks[i - m] \notin analyzer.lex.negators \cup {"mas", "porem", "so"}
          /\ Sign(call.contribs[i]) = Sign(_term_polarity(analyzer.lex, call.toks[i]))

\* the multiplier, in tenths, that mapping gives the token before index i
Multiplier(mapping, i) ==
    IF i > 1 /\ call.toks[i - 1] \in DOMAIN mapping THEN mapping[call.toks[i - 1]] ELSE 10

\* C9: the contribution of a polarized token is its lexicon polarity times the
\* intensifier multiplier of the token at i-1 if that is an intensifier, times
\* its diminisher multiplier if it is a diminisher (both if it is both);
\* modifiers elsewhere, and no preceding token, leave the multiplier at 1.
C9_ImmediateModifier ==
    IsAnalyze =>
        \A i \in 1 .. Len(call.toks) :
            Polarized(i) =>
                Abs(call.contribs[i]) =
                    Abs(_term_polarity(analyzer.lex, call.toks[i]))
                    * Multiplier(analyzer.lex.intensifiers, i)
                    * Multiplier(analyzer.lex.diminishers, i)

\* C9 witness: under a lexicon where "pouco" is both an intensifier (1.2) and a
\* diminisher (0.6), "muito pouco bom" contributes 1.0 * 1.2 * 0.6 = 0.72: both
\* multipliers of "pouco", none of "muito".
C9_Witness ==
    /\ IsAnalyze
    /\ call.toks = <<"muito", "pouco", "bom">>
    /\ "pouco" \in (DOMAIN analyzer.lex.intensifiers) \cap (DOMAIN analyzer.lex.diminishers)
    /\ call.contribs = <<0, 0, 720>>

\* the float avg of the call against a threshold x given in thousandths
AvgGreater(x) ==
    \/ call.score_sum > x * call.ret.hits
    \/ call.score_sum = x * call.ret.hits /\ call.avg_err > 0

AvgLess(x) ==
    \/ call.score_sum < x * call.ret.hits
    \/ call.score_sum = x * call.ret.hits /\ call.avg_err < 0

\* C10: for every analyze call with hits > 0 and avg = score_sum / hits, the
\* label is positivo iff avg > 0.2, negativo iff avg < -0.2, neutro otherwise
\* (avg = 0.2 and avg = -0.2 are neutral).
C10_LabelThresholds ==
    (IsAnalyze /\ call.ret.hits > 0) =>
        /\ call.ret.label = "positivo" <=> AvgGreater(200)
        /\ call.ret.label = "negativo" <=> AvgLess(-200)
        /\ call.ret.label = "neutro" <=> (~AvgGreater(200) /\ ~AvgLess(-200))

\* C10 witness: two hits averaging exactly 0.2 ("bom nao pouco bom": 1.0 and
\* -0.6, and 0.4 / 2 is the float 0.2) are labelled neutro.
C10_Witness ==
    /\ IsAnalyze
    /\ call.toks = <<"bom", "nao", "pouco", "bom">>
    /\ call.ret.hits = 2
    /\ call.score_sum = 400
    /\ call.avg_err = 0
    /\ call.ret.label = "neutro"

\* C11 as stated: in every result of analyze the label is a function of the
\* returned score (the average rounded to 4 places): positivo iff score > 0.2,
\* negativo iff score < -0.2, neutro otherwise.
C11_LabelFromScore ==
    IsAnalyze =>
        /\ call.ret.label = "positivo" <=> call.ret.score > 2000
        /\ call.ret.label = "negativo" <=> call.ret.score < -2000

\* the exact value the returned confidence is rounded from, times hits, in
\* thousandths: min(1.0, 0.5 + min(0.5, |avg|)), plus 0.15 capped at 1.0 when
\* the target is mentioned
ExactConfidenceTimesHits ==
    LET h == call.ret.hits
        a == Abs(call.score_sum)
        base == 500 * h + (IF a < 500 * h THEN a ELSE 500 * h)
        plus == IF call.ret.mentioned THEN base + 150 * h ELSE base
    IN  IF plus > 1000 * h THEN 1000 * h ELSE plus

\* C12: every result of analyze has its confidence within [0, 1]; with hits > 0
\* it is min(1.0, 0.5 + min(0.5, |avg|)), plus 0.15 capped at 1.0 when the
\* target is mentioned, rounded to 3 decimal places.
C12_ConfidenceRange ==
    IsAnalyze =>
        /\ 0 <= call.ret.confidence /\ call.ret.confidence <= 1000
        /\ call.ret.hits > 0 =>
              2 * Abs(call.ret.confidence * call.ret.hits - ExactConfidenceTimesHits)
                  <= call.ret.hits

\* C12 witness: "bom ruim" with the target Rui mentioned averages -0.1: the
\* confidence is 0.5 + 0.1 + 0.15 = 0.75.
C12_Witness ==
    /\ IsAnalyze
    /\ call.toks = <<"bom", "ruim">>
    /\ call.ret.mentioned
    /\ call.ret.hits = 2
    /\ call.score_sum = -200
    /\ call.ret.confidence = 750

\* the target names given to the call
TargetVariants ==
    IF call.target_names = None THEN <<>> ELSE call.target_names.items

\* some non-empty normalized target variant is a substring of the space-joined
\* tokens, or its last component is one of the tokens
VariantInText ==
    \E k \in 1 .. Len(TargetVariants) :
        LET nt == normalize(TargetVariants[k])
        IN  /\ nt # <<>>
            /\ \/ IsSubstring(Join(nt), Join(call.toks))
               \/ nt[Len(nt)] \in {call.toks[i] : i \in 1 .. Len(call.toks)}

\* C13: hits = 0 implies score 0 and label neutro; with tokens but none
\* polarized the confidence is 0.3, or 0.5 when the target is mentioned, and the
\* mentioned flag is reported.
C13_ZeroHits ==
    (IsAnalyze /\ call.ret.hits = 0) =>
        /\ call.ret.score = 0
        /\ call.ret.label = "neutro"
        /\ call.toks # <<>> =>
              /\ call.ret.mentioned = VariantInText
              /\ call.ret.confidence = IF VariantInText THEN 500 ELSE 300

\* C13 witness: "Silva mas" against the target "Ana Silva": no hit, mentioned,
\* confidence 0.5.
C13_Witness ==
    /\ IsAnalyze
    /\ call.toks = <<"silva", "mas">>
    /\ call.target_names = List(<<"Ana Silva">>)
    /\ call.ret = [label |-> "neutro", score |-> 0, confidence |-> 500,
                   hits |-> 0, mentioned |-> TRUE]

\* the text is None, empty, or made of punctuation only
NoWordInText ==
    \/ call.text = None
    \/ \A i \in 1 .. Len(call.text.words) : call.text.words[i] = "..."

\* C14: for a text that is empty, None or without word tokens analyze returns
\* neutro, score 0, confidence 0.2, hits 0, mentioned false, whatever the target
\* names are.
C14_EmptyText ==
    (IsAnalyze /\ NoWordInText) =>
        call.ret = [label |-> "neutro", score |-> 0, confidence |-> 200,
                    hits |-> 0, mentioned |-> FALSE]

\* C14 witness: the text None analyzed against the target "Ana Silva".
C14_Witness ==
    /\ IsAnalyze
    /\ call.text = None
    /\ call.target_names = List(<<"Ana Silva">>)
    /\ call.ret.confidence = 200
    /\ ~call.ret.mentioned

\* C15: on a non-empty token list, mentioned is true iff some non-empty
\* normalized target variant is a substring of the space-joined tokens or has
\* its last component among the tokens; without target names, or with empty
\* ones only, it is false.
C15_MentionDetection ==
    (IsAnalyze /\ call.toks # <<>>) => (call.ret.mentioned <=> VariantInText)

\* C15 witness: the target "Rui" is mentioned by "ruim bom": "rui" is a
\* substring of the text and no token of it.
C15_Witness ==
    /\ IsAnalyze
    /\ call.toks = <<"ruim", "bom">>
    /\ call.target_names = List(<<"", "  ", "Rui">>)
    /\ call.ret.mentioned

\* the last component of some normalized target name is one of the tokens
SurnameAmongTokens ==
    \E k \in 1 .. Len(TargetVariants) :
        LET nt == normalize(TargetVariants[k])
        IN  /\ nt # <<>>
            /\ nt[Len(nt)] \in {call.toks[i] : i \in 1 .. Len(call.toks)}

\* what analyze returns for the text of the call when no target is given; the
\* average is the same float in both calls, the rounding of the confidence is
\* of a different float
WithoutTarget(tie) ==
    analyze_result(analyze_locals(analyzer.lex, call.text, None), tie, call.avg_err)

\* C16: for a text with hits > 0, analyze with a target whose surname is among
\* the tokens returns a confidence greater than or equal to that of analyze on
\* the same text without the target, and the same label, score and hits.
C16_MentionMonotonic ==
    (IsAnalyze /\ call.ret.hits > 0 /\ SurnameAmongTokens) =>
        \A tie \in Ties :
            /\ call.ret.confidence >= WithoutTarget(tie).confidence
            /\ call.ret.label = WithoutTarget(tie).label
            /\ call.ret.score = WithoutTarget(tie).score
            /\ call.ret.hits = WithoutTarget(tie).hits

\* C16 witness: "bom ruim Silva" against the target "Ana Silva" has confidence
\* 0.75, and 0.6 without the target.
C16_Witness ==
    /\ IsAnalyze
    /\ call.toks = <<"bom", "ruim", "silva">>
    /\ call.target_names = List(<<"Ana Silva">>)
    /\ SurnameAmongTokens
    /\ call.ret.confidence = 750
    /\ WithoutTarget("up").confidence = 600
    /\ ~WithoutTarget("up").mentioned

---------------------------------------------------------------------------
(* Properties of _detect_news_stance and _has_article_reference *)

IsStance == call.op = "_detect_news_stance"

IsReference == call.op = "_has_article_reference"

\* the phrase, in letters, occurs in the normalized text of the call
Occurs(phrase) == IsSubstring(Join(phrase), call.t)

DisagreementPhrases == {disagree[i] : i \in 1 .. Len(disagree)}

AgreementPhrases == {agree[i] : i \in 1 .. Len(agree)}

ReferencePhrases == {keys[i] : i \in 1 .. Len(keys)}

\* C17: a text whose normalized form contains a disagreement phrase yields
\* discorda, also when it contains an agreement phrase; concorda is returned
\* only when no disagreement phrase occurs and some agreement phrase does;
\* otherwise indefinido.
C17_DisagreementFirst ==
    IsStance =>
        /\ (\E p \in DisagreementPhrases : Occurs(p)) => call.ret = "discorda"
        /\ call.ret = "concorda" <=>
              /\ \A p \in DisagreementPhrases : ~Occurs(p)
              /\ \E p \in AgreementPhrases : Occurs(p)
        /\ ((\A p \in DisagreementPhrases : ~Occurs(p))
              /\ (\A p \in AgreementPhrases : ~Occurs(p))) => call.ret = "indefinido"

\* C17 witness: "Não   concordo" normalizes to "nao concordo", which contains
\* the agreement phrase "concordo", and yields discorda.
C17_Witness ==
    /\ IsStance
    /\ call.text = Str(<<"Não", "  ", "concordo">>)
    /\ Occurs(<<"nao", "concordo">>)
    /\ Occurs(<<"concordo">>)
    /\ call.ret = "discorda"

\* C18: _has_article_reference returns true iff the normalized text contains
\* some phrase of the reference set as a substring; empty or missing text
\* yields false.
C18_ArticleReference ==
    IsReference =>
        /\ call.ret <=> \E p \in ReferencePhrases : Occurs(p)
        /\ (call.text = None \/ call.text = Str(<<>>)) => ~call.ret

\* C18 witness: "no notícias" refers to the article: "noticia" is a substring
\* of the normalized text and no word of it.
C18_Witness ==
    /\ IsReference
    /\ call.text = Str(<<"no", "notícias">>)
    /\ call.ret

---------------------------------------------------------------------------
(* Properties of repeated calls *)

\* the call in progress has the operation and the arguments of the kept call
SameCall ==
    /\ memo # NoMemo
    /\ call.op = memo.call.op
    /\ \/ /\ call.op = "analyze"
          /\ call.text = memo.call.text
          /\ call.target_names = memo.call.target_names
       \/ /\ call.op = "_derive_final_label"
          /\ call.comment_res = memo.call.comment_res
          /\ call.article_res = memo.call.article_res
          /\ call.mentioned = memo.call.mentioned
          /\ call.article_ref = memo.call.article_ref
          /\ call.stance = memo.call.stance

---------------------------------------------------------------------------
(* Properties of generate_sentiment_report *)

Reporting == report.pc \in {"article_rows", "comment_rows", "done"}

\* the result of analyze on the title and body of the article against the
\* variants of the person's name, for some outcome of its float roundings
IsArticleAnalysis(res, key) ==
    \E tie \in Ties, err \in FloatErrs :
        res = analyze(analyzer.lex, texto(ArticleTitle[key[1]], ArticleBody[key[1]]),
                      target_variants(PersonName[key[2]]), tie, err)

\* C20: the article-level result is computed once per (article url, person
\* id), from the article's title and body, before any comment is processed;
\* every comment row of that article and person is derived with that result,
\* and a pair absent from the map is passed to the cascade as None.
C20_ArticleResultReuse ==
    Reporting =>
        /\ report.pc = "article_rows" => report.out = <<>>
        /\ \A i, j \in 1 .. Len(report.analyzed) :
              report.analyzed[i] = report.analyzed[j] => i = j
        /\ report.pc # "article_rows" =>
              DOMAIN report.article_map = {report.analyzed[i] : i \in 1 .. Len(report.analyzed)}
        /\ \A key \in DOMAIN report.article_map :
              IsArticleAnalysis(report.article_map[key], key)
        /\ \A i \in 1 .. Len(report.out) :
              LET o == report.out[i]
                  key == <<o.artigo_url, o.id_pessoa>>
              IN  /\ o.art_res = IF key \in DOMAIN report.article_map
                                 THEN report.article_map[key] ELSE None
                  /\ \E tie \in Ties :
                        o.final = _derive_final_label(o.res, o.art_res, o.res.mentioned,
                                                      o.ref, o.stance, tie)

\* C20 witness: two comment rows of article u1 and person 1 were derived with
\* the one result of the article, and a row of person 2, linked to the article
\* after the article results were computed, with None.
C20_Witness ==
    /\ report.pc = "done"
    /\ DOMAIN report.article_map = {<<"u1", 1>>, <<"u2", 2>>}
    /\ \E i, j, k \in 1 .. Len(report.out) :
          /\ i # j
          /\ report.out[i].artigo_url = "u1" /\ report.out[i].id_pessoa = 1
          /\ report.out[j].artigo_url = "u1" /\ report.out[j].id_pessoa = 1
          /\ report.out[i].art_res = report.article_map[<<"u1", 1>>]
          /\ report.out[j].art_res = report.article_map[<<"u1", 1>>]
          /\ report.out[i].final.origin = "alinhamento_noticia_stance"
          /\ report.out[k].id_pessoa = 2
          /\ report.out[k].art_res = None

---------------------------------------------------------------------------
(* Properties of aggregate_by_person *)

IsAggregate == call.op = "aggregate_by_person"

\* the written rows of the person (pid, pname)
RowsOf(key) ==
    {i \in 1 .. Len(call.ret) :
        <<call.ret[i].id_pessoa, call.ret[i].nome_pessoa>> = key}

\* the input rows of the person (pid, pname)
InputOf(key) ==
    {i \in 1 .. Len(call.rows) :
        <<call.rows[i].id_pessoa, call.rows[i].nome_pessoa>> = key}

InputKeys ==
    {<<call.rows[i].id_pessoa, call.rows[i].nome_pessoa>> : i \in 1 .. Len(call.rows)}

\* the input rows of the person whose column sentimento_final is the label
FinalIs(key, label) ==
    {i \in InputOf(key) : call.rows[i].sentimento_final = Cell(label)}

\* the label the row is counted under: sentimento_final, or sentimento when
\* sentimento_final is missing or empty
CountedIs(key, label) ==
    {i \in InputOf(key) :
        IF call.rows[i].sentimento_final \in {None, Cell("")}
        THEN call.rows[i].sentimento = Cell(label)
        ELSE call.rows[i].sentimento_final = Cell(label)}

\* one written row per person, with every input row of the person counted once
CountedOnce ==
    /\ \A key \in InputKeys : Cardinality(RowsOf(key)) = 1
    /\ \A i \in 1 .. Len(call.ret) :
          LET o == call.ret[i]
              key == <<o.id_pessoa, o.nome_pessoa>>
          IN  /\ key \in InputKeys
              /\ o.qtd_total = Cardinality(InputOf(key))
              /\ o.qtd_pos + o.qtd_neg + o.qtd_neu = o.qtd_total
              /\ call.counts[key].mention <= o.qtd_total
              /\ call.counts[key].mention =
                    Cardinality({r \in InputOf(key) : call.rows[r].alvo_mencionado = Cell("1")})

\* C21 as stated: every input row is counted once under its person, and a row
\* counts as positive or negative only if its column sentimento_final is
\* positivo or negativo; a missing label counts as neutral.
C21_AsStated ==
    IsAggregate =>
        /\ CountedOnce
        /\ \A i \in 1 .. Len(call.ret) :
              LET o == call.ret[i]
                  key == <<o.id_pessoa, o.nome_pessoa>>
              IN  /\ o.qtd_pos = Cardinality(FinalIs(key, "positivo"))
                  /\ o.qtd_neg = Cardinality(FinalIs(key, "negativo"))

\* C21 amended: every input row is counted once under its (person id, person
\* name), qtd_pos + qtd_neg + qtd_neu = qtd_total, the mention count is at most
\* qtd_total, and a row counts as positive or negative iff its label is
\* positivo or negativo, the label being sentimento_final or, when that is
\* missing or empty, the column sentimento.
C21_CountsPerPerson ==
    IsAggregate =>
        /\ CountedOnce
        /\ \A i \in 1 .. Len(call.ret) :
              LET o == call.ret[i]
                  key == <<o.id_pessoa, o.nome_pessoa>>
              IN  /\ o.qtd_pos = Cardinality(CountedIs(key, "positivo"))
                  /\ o.qtd_neg = Cardinality(CountedIs(key, "negativo"))

\* C21 witness: two rows of person 1, one with sentimento_final positivo and
\* one without sentimento_final and with sentimento negativo, give one written
\* row with total 2, one positive, one negative.
C21_Witness ==
    /\ IsAggregate
    /\ Len(call.rows) = 2
    /\ call.rows[1].sentimento_final = Cell("positivo")
    /\ call.rows[2].sentimento_final = None
    /\ call.rows[2].sentimento = Cell("negativo")
    /\ Len(call.ret) = 1
    /\ call.ret[1].qtd_total = 2
    /\ call.ret[1].qtd_pos = 1
    /\ call.ret[1].qtd_neg = 1
    /\ call.ret[1].qtd_neu = 0

---------------------------------------------------------------------------
(* Properties of _derive_final_label on results of analyze *)

\* a result with a non-neutral label and hits > 0
Polar(res) == res # None /\ res.label # "neutro" /\ res.hits > 0

\* C22: when the comment and the article result passed to _derive_final_label
\* are results of analyze, a non-neutral one with hits > 0 has a confidence of
\* at least 0.7, and every decision with origin alinhamento_noticia has the
\* final confidence 1.0.
C22_AlignmentConfidence ==
    IsDerive =>
        /\ Polar(call.comment_res) => call.comment_res.confidence >= 700
        /\ Polar(call.article_res) => call.article_res.confidence >= 700
        /\ call.ret.origin = "alinhamento_noticia" => call.ret.confidence = 10000

\* C22 witness: a comment and an article result of confidence 0.7 each (an
\* average on the threshold that the float puts beyond it) are aligned with
\* the confidence 1.0.
C22_Witness ==
    /\ IsDerive
    /\ call.ret.origin = "alinhamento_noticia"
    /\ call.comment_res.confidence = 700
    /\ call.article_res.confidence = 700
    /\ call.ret.confidence = 10000

---------------------------------------------------------------------------
(* Properties of HttpClient.fetch *)

\* an attempt that raised or returned a status >= 500
Failed(outcome) == IsRaised(outcome) \/ outcome.status_code >= 500

\* the exception an attempt ends with
ExceptionOf(outcome) ==
    IF IsRaised(outcome) THEN outcome.exception ELSE "HTTPError"

FetchRunning == fetch.pc \in {"get", "except", "sleep"}

FetchEnded == fetch.pc \in {"returned", "raised"}

\* at most 4 attempts, each but the last a failure followed by one sleep; the
\* call returns the first response below 500, or raises the exception of the
\* fourth failure
FetchAttempts ==
    (FetchRunning \/ FetchEnded) =>
        /\ Len(fetch.gets) <= 4
        /\ fetch.slept <= 3
        /\ \A i \in 1 .. (Len(fetch.gets) - 1) : Failed(fetch.gets[i])
        /\ fetch.pc = "get" => fetch.slept = Len(fetch.gets)
        /\ fetch.pc # "get" => fetch.slept = Len(fetch.gets) - 1
        /\ fetch.pc = "returned" =>
              /\ fetch.ret # None
              /\ fetch.ret = fetch.gets[Len(fetch.gets)]
              /\ ~IsRaised(fetch.ret)
              /\ fetch.ret.status_code < 500
        /\ fetch.pc = "raised" =>
              /\ Len(fetch.gets) = 4
              /\ Failed(fetch.gets[4])
              /\ fetch.e = ExceptionOf(fetch.gets[4])

\* C23: fetch makes at most 4 GET attempts, sleeping after each of the first
\* three failures; it returns the first response with a status below 500 and
\* raises the exception of the fourth failure; every call ends, by returning
\* such a response or by raising, never with None or a 5xx response.
C23_FetchRetries == []FetchAttempts /\ (FetchRunning ~> FetchEnded)

\* C23 witness: three failures, three sleeps, and a fourth attempt that
\* returns 404.
C23_Witness ==
    /\ fetch.pc = "returned"
    /\ Len(fetch.gets) = 4
    /\ fetch.slept = 3
    /\ fetch.gets[1] = Response(503)
    /\ fetch.gets[2] = Raised("Timeout")
    /\ fetch.ret = Response(404)

---------------------------------------------------------------------------
(* Properties of Scraper._within_date_filters *)

IsWithin == call.op = "_within_date_filters"

\* the valid date of the call is before the start parsed from date_after
BeforeStart == scraper.start_utc # None /\ call.dt.month < scraper.start_utc.month

\* the valid date of the call is not before the end parsed from date_before
NotBeforeEnd == scraper.end_utc # None /\ call.dt.month >= scraper.end_utc.month

\* the valid date of the call is before the cutoff of months_back
BeforeCutoff ==
    /\ scraper.cfg.months_back > 0
    /\ call.dt.month < NowUtc.month - scraper.cfg.months_back

\* C24 as stated: a valid date is rejected when it is before the start, when
\* it is not before the end, and, only when neither date_after nor date_before
\* is set in the configuration, when it is before the months_back cutoff; it
\* is accepted in every other case.
C24_AsStated ==
    (IsWithin /\ call.dt # None) =>
        (call.ret <=>
            ~(\/ BeforeStart
              \/ NotBeforeEnd
              \/ /\ scraper.cfg.date_after = ""
                 /\ scraper.cfg.date_before = ""
                 /\ BeforeCutoff))

\* C24 amended: a valid date is rejected when it is before the start parsed
\* from date_after, when it is not before the end parsed from date_before, and,
\* only when neither a start nor an end was parsed, when it is before the
\* months_back cutoff; it is accepted in every other case.
C24_DateFilters ==
    (IsWithin /\ call.dt # None) =>
        (call.ret <=>
            ~(\/ BeforeStart
              \/ NotBeforeEnd
              \/ /\ scraper.start_utc = None
                 /\ scraper.end_utc = None
                 /\ BeforeCutoff))

\* C24 witness: with date_after 2024-02-01 and months_back 2 (cutoff month 3),
\* month 2 passes: the cutoff is not applied.
C24_Witness ==
    /\ IsWithin
    /\ scraper.cfg.date_after = "2024-02-01"
    /\ scraper.cfg.date_before = ""
    /\ scraper.cfg.months_back = 2
    /\ call.dt = Date(2)
    /\ call.ret

\* C25 as stated: _within_date_filters returns True when no date filter is
\* configured or when dt is None.
C25_TrueWithoutFilterOrDate ==
    IsWithin =>
        /\ (scraper.start_utc = None /\ scraper.end_utc = None
              /\ scraper.cutoff_utc = None) => call.ret
        /\ call.dt = None => call.ret

---------------------------------------------------------------------------
(* Properties of Scraper.collect_links *)

IsCollect == call.op = "collect_links"

Collected == IsCollect /\ call.pc = "returned"

NoDuplicate(s) == \A i, j \in DOMAIN s : s[i] = s[j] => i = j

ElementsOf(s) == {s[i] : i \in DOMAIN s}

\* the position of the first occurrence of u in s
FirstAt(s, u) == CHOOSE i \in DOMAIN s : s[i] = u /\ \A j \in 1 .. i - 1 : s[j] # u

\* C26: the list collect_links returns has no duplicate URL, holds every URL
\* kept from the fetched listing pages (and no other), and is ordered by the
\* first occurrence of each URL across the pages in the order of their fetch.
C26_UniqueLinks ==
    Collected =>
        LET ret == call.ret.items
            kept == call.all_links
        IN  /\ NoDuplicate(ret)
            /\ ElementsOf(ret) = ElementsOf(kept)
            /\ \A i, j \in DOMAIN ret :
                  i < j => FirstAt(kept, ret[i]) < FirstAt(kept, ret[j])

\* C26 witness: two pages were fetched, /b then /a were kept from the first
\* and /a then /b from the second; /b, /a is returned.
C26_Witness ==
    /\ Collected
    /\ Len(call.pages) = 2
    /\ call.pages[1].kept = 2
    /\ call.all_links = <<"/b", "/a", "/a", "/b">>
    /\ call.ret = List(<<"/b", "/a">>)

OnlyMonthsBack ==
    /\ scraper.cfg.months_back > 0
    /\ scraper.cfg.date_after = ""
    /\ scraper.cfg.date_before = ""

\* a stop condition is met on the fetched page e of the log
StopMet(e) ==
    \/ e.status_code # 200
    \/ /\ scraper.cfg.listing_item_selector # ""
       /\ e.kept = 0
       /\ \/ OnlyMonthsBack
          \/ /\ scraper.cfg.date_after # ""
             /\ e.newest # None
             /\ e.newest.month < _parse_iso_to_utc(scraper.cfg.date_after).month

\* the step returns the list with every link collected so far
ReturnsNext ==
    /\ call'.op = "collect_links" /\ call'.pc = "returned"
    /\ call'.pages = call.pages
    /\ ElementsOf(call'.ret.items) = ElementsOf(call.all_links)

LastPage == call.pages[Len(call.pages)]

\* the loop over the pages ended by a break or after end_page
LoopOver ==
    /\ IsCollect
    /\ call.pc = "break" \/ (call.pc = "for" /\ call.page > call.end_page)

\* the pages fetched are start_page, start_page + 1, ... and none is beyond
\* end_page; no stop condition was met on a page before the last one fetched;
\* the list is returned only after a stop condition or after end_page
PagesInOrder ==
    IsCollect =>
        /\ \A i \in DOMAIN call.pages :
              /\ call.pages[i].page = start_page(scraper.cfg) + i - 1
              /\ call.pages[i].page <= end_page(scraper.cfg)
              /\ i < Len(call.pages) => ~StopMet(call.pages[i])
        /\ Collected =>
              /\ call.pages # <<>>
              /\ StopMet(LastPage) \/ LastPage.page = end_page(scraper.cfg)
              /\ ElementsOf(call.all_links) \subseteq ElementsOf(call.ret.items)

\* a page is fetched only when no stop condition was met on the last one, and
\* the links collected so far stay collected
NoFetchAfterStop ==
    IsCollect /\ call'.op = "collect_links" =>
        /\ call'.pages # call.pages =>
              /\ call.pages # <<>> => ~StopMet(LastPage)
              /\ call'.pages = Append(call.pages, call'.pages[Len(call'.pages)])
        /\ SubSeq(call'.all_links, 1, Len(call.all_links)) = call.all_links

\* C27: collect_links fetches the listing pages in increasing order from
\* start_page to end_page and fetches no further page once a stop condition is
\* met (a status other than 200; with item selectors, no item kept while only
\* months_back is active; no item kept, date_after set and the newest dated
\* item older than date_after); the links of earlier pages are still returned.
\* Once the loop over the pages is over, the next step returns the list.
C27_PagesAndStops ==
    /\ []PagesInOrder
    /\ [][NoFetchAfterStop]_vars
    /\ [][LoopOver => ReturnsNext]_vars

\* C27 witness: of pages 1..3 the first kept a link, the second kept none and
\* its newest item is older than date_after: page 3 is not fetched and the
\* link of page 1 is returned.
C27_Witness ==
    /\ Collected
    /\ end_page(scraper.cfg) = 3
    /\ scraper.cfg.date_after # ""
    /\ Len(call.pages) = 2
    /\ call.pages[1].kept = 1
    /\ call.pages[2].status_code = 200 /\ call.pages[2].kept = 0
    /\ call.pages[2].newest = Date(1)
    /\ call.ret = List(<<"/a">>)

---------------------------------------------------------------------------
(* Properties of Scraper.scrape_articles *)

Scraped == call.op = "scrape_articles" /\ call.pc = "done"

\* the date of the article passes _within_date_filters and the name filter
\* matches its title + body
Selected(self, item) ==
    /\ _within_date_filters(self, ItemDt(item))
    /\ match(NameFilter(self.cfg.names), Str(item.title.words \o item.body.words)).matched

\* the fetch of the k-th url returned status 200, the date of the article
\* passed _within_date_filters and the name filter matched title + body
Qualifies(k) ==
    LET resp == call.fetched[k].resp
    IN  /\ ~IsRaised(resp)
        /\ resp.status_code = 200
        /\ Selected(scraper, parse_article(resp.text, call.links[k]))

\* the names matched in the article of the k-th url
MatchedNames(k) ==
    LET html == call.fetched[k].resp.text
    IN  match(NameFilter(scraper.cfg.names), Str(html.title.words \o html.body.words))
            .matched_names

\* what is done for the k-th url, in order
EventsFor(k) ==
    LET u == call.links[k]
    IN  IF ~Qualifies(k) THEN <<<<"sleep", u>>>>
        ELSE <<<<"upsert_article", u>>>>
             \o (IF MatchedNames(k) # <<>> THEN <<<<"link_article_people", u>>>> ELSE <<>>)
             \o <<<<"upsert_comments", u>>, <<"sleep", u>>>>

RECURSIVE EventsUpTo(_)
EventsUpTo(k) == IF k = 0 THEN <<>> ELSE EventsUpTo(k - 1) \o EventsFor(k)

\* C28: when scrape_articles is over every url of links was fetched exactly
\* once, in order; for a url whose fetch returned 200 and whose article passed
\* the date filters and the name filter the article was upserted, then its
\* person links (when names matched), then its comments, then the sleep; for
\* any other url (another status, an exception, a filter) only the sleep
\* follows; the articles of artigos are the qualifying ones and every row of
\* comentarios and of artigos_pessoas belongs to one of them.
C28_ScrapeArticles ==
    Scraped =>
        LET n == Len(call.links)
            persisted == {call.links[k] : k \in {j \in 1 .. n : Qualifies(j)}}
        IN  /\ Len(call.fetched) = n
            /\ \A k \in 1 .. n : call.fetched[k].url = call.links[k]
            /\ call.events = EventsUpTo(n)
            /\ DOMAIN db.artigos = persisted
            /\ \A key \in DOMAIN db.comentarios :
                  db.comentarios[key].article_url \in persisted
            /\ \A pair \in db.artigos_pessoas : pair[1] \in persisted
            /\ \A k \in 1 .. n :
                  Qualifies(k) =>
                      LET rows == call.fetched[k].resp.text.comments
                      IN  \A i \in DOMAIN rows :
                             _comment_key(rows[i]) \in DOMAIN db.comentarios

\* C28 witness: the fetch of /a raised, /b was fetched with status 200 and
\* matched Ana Silva: only /b is in artigos, linked to person 1, with its two
\* comments; /a was followed by a sleep alone.
C28_Witness ==
    /\ Scraped
    /\ call.links = <<"/a", "/b">>
    /\ IsRaised(call.fetched[1].resp)
    /\ call.events = <<<<"sleep", "/a">>, <<"upsert_article", "/b">>,
                       <<"link_article_people", "/b">>, <<"upsert_comments", "/b">>,
                       <<"sleep", "/b">>>>
    /\ DOMAIN db.artigos = {"/b"}
    /\ db.artigos_pessoas = {<<"/b", 1>>}
    /\ Cardinality(DOMAIN db.comentarios) = 2

---------------------------------------------------------------------------
(* Properties of the migration of the table names *)

Migrated == call.op = "__post_init__"

\* C29 as stated: if the migration commits, every row of people, articles,
\* comments and article_people is in pessoas, artigos, comentarios and
\* artigos_pessoas and the old tables no longer exist; if it fails, the old
\* tables and their rows are as before and the error is raised; on a file
\* without old tables it changes nothing.
C29_MigrationLosesNoData ==
    Migrated =>
        /\ ~call.raised =>
              /\ call.before.people \subseteq db.pessoas
              /\ call.before.articles \subseteq db.artigos
              /\ call.before.comments \subseteq db.comentarios
              /\ call.before.article_people \subseteq db.artigos_pessoas
              /\ db.tables \cap OldTables = {}
        /\ call.raised =>
              /\ db.tables \cap OldTables = call.before.tables \cap OldTables
              /\ db.people = call.before.people
              /\ db.articles = call.before.articles
              /\ db.comments = call.before.comments
              /\ db.article_people = call.before.article_people
        /\ (call.before.tables = NewTables /\ ~call.raised) => db = call.before

---------------------------------------------------------------------------
(* Properties of SQLiteStorage.upsert_comments *)

HasStorage == "upserts" \in DOMAIN memo

\* the key of a comment: its comment_id if not empty, else its permalink if
\* not empty, else the SHA-1 of article_url, a newline and content
KeyOf(row) ==
    CASE row.comment_id # "" -> row.comment_id
      [] row.comment_id = "" /\ row.permalink # "" -> row.permalink
      [] OTHER -> Sha1Hex[<<row.article_url, row.content>>]

\* the last row of the history with key k
LastUpsert(k) ==
    LET last == CHOOSE i \in DOMAIN memo.upserts :
                    /\ KeyOf(memo.upserts[i]) = k
                    /\ \A j \in DOMAIN memo.upserts :
                          KeyOf(memo.upserts[j]) = k => j <= i
    IN  memo.upserts[last]

\* C30: after any sequence of upsert_comments calls comentarios holds exactly
\* one row per distinct key of the comments passed, with the fields of the
\* last upsert with that key; upserting the comments of a call again changes
\* no row and adds none.
C30_OneRowPerKey ==
    HasStorage =>
        /\ DOMAIN db.comentarios = {KeyOf(memo.upserts[i]) : i \in DOMAIN memo.upserts}
        /\ \A k \in DOMAIN db.comentarios : db.comentarios[k] = LastUpsert(k)
        /\ call.op = "upsert_comments" =>
              /\ ~call.raised
              /\ upsert_comments(db, call.rows).db = db

\* C30 witness: three comments were passed in two calls, the first and the
\* last without comment_id and with the same permalink, the second with a
\* SHA-1 key: comentarios holds two rows and the row of the permalink has the
\* content of the last call.
C30_Witness ==
    /\ HasStorage
    /\ call.op = "upsert_comments"
    /\ Len(call.rows) = 1
    /\ Len(memo.upserts) = 3
    /\ memo.upserts[1].comment_id = "" /\ memo.upserts[1].permalink = "/p#c1"
    /\ memo.upserts[1].content = "bom"
    /\ memo.upserts[2].comment_id = "" /\ memo.upserts[2].permalink = ""
    /\ memo.upserts[3] = [memo.upserts[1] EXCEPT !.content = "ruim"]
    /\ Cardinality(DOMAIN db.comentarios) = 2
    /\ db.comentarios["/p#c1"].content = "ruim"

=============================================================================
